---- MODULE Spec2Model ----
(***************************************************************************)
(* Verification model of the Excel score-query data matching engine:       *)
(* ConfigurableDataMatcher, FastDataMatcher, OptimizedProcessingEngine and *)
(* ProcessingEngine (src/services).                                        *)
(*                                                                         *)
(* Cell values are Python strings, modelled as sequences of one-character  *)
(* strings, or the pandas missing value NaN.  A DataFrame is a record      *)
(* [columns, rows]; a row is a function from column name to cell; row      *)
(* positions are 1-based here (iloc position + 1).  Floats 0.0 .. 1.0 are  *)
(* kept in hundredths.                                                     *)
(***************************************************************************)
EXTENDS Integers, Sequences, FiniteSets, TLC

VARIABLES
    position_df,      \* the position table handed to the matchers
    interview_df,     \* the candidate (interview) table handed to the matchers
    column_mappings,  \* ordered dict {position column: interview column}
    cfg,              \* the ConfigurableDataMatcher instance
    cfgOuts,          \* what its match_data calls returned, in call order
    fast,             \* the FastDataMatcher instance
    fastOuts,         \* what its match_data_fast calls returned, in call order
    opt,              \* the OptimizedProcessingEngine instance
    optOuts,          \* what its process_files_optimized calls returned, in call order
    engine,           \* the ProcessingEngine instance
    engineIn,         \* the files and mapping handed to process_files
    engineOut,        \* the ProcessingResult of the last process_files call
    calls,            \* the calls of a session on one instance, each with its arguments
    dm,               \* the DataMatcher instance of the engine (self.data_matcher)
    dmIn,             \* the position and interview position list handed to it
    dmOut,            \* the MatchResults of its _find_best_match calls, in call order
    validator,        \* the DataValidator instance of the engine (self.data_validator)
    validatorOuts     \* the validator calls of a session, each with what it did

vars == <<position_df, interview_df, column_mappings, cfg, cfgOuts, fast,
          fastOuts, opt, optOuts, engine, engineIn, engineOut, calls,
          dm, dmIn, dmOut, validator, validatorOuts>>

matcherVars == <<position_df, interview_df, column_mappings, cfg, cfgOuts,
                 fast, fastOuts, opt, optOuts, calls>>

engineVars == <<engine, engineIn, engineOut, dm, dmIn, dmOut, validator, validatorOuts>>

legacyVars == <<dm, dmIn, dmOut>>

validatorVars == <<validator, validatorOuts>>

(***************************************************************************)
(* Bounds of the model.                                                    *)
(***************************************************************************)
MaxCandidates == 2
MaxPositions == 1
MaxRuns == 2
MaxBatchPositions == 221
MaxEnginePositions == 2
MaxEngineCandidates == 2
MaxCalls == 3
MaxSessionCandidates == 2
MaxIndexCandidates == 3
MaxLegacyCandidates == 2
MaxLegacyRuns == 1

(***************************************************************************)
(* Python values.                                                          *)
(***************************************************************************)
NaN == <<"NaN">>

Notna(v) == v # NaN

\* str(value): a string is itself, the missing value prints as 'nan'.
StrOf(v) == IF v = NaN THEN <<"n", "a", "n">> ELSE v

RECURSIVE LStrip(_)
LStrip(s) == IF s # <<>> /\ Head(s) = " " THEN LStrip(Tail(s)) ELSE s

RECURSIVE RStrip(_)
RStrip(s) ==
    IF s # <<>> /\ s[Len(s)] = " " THEN RStrip(SubSeq(s, 1, Len(s) - 1)) ELSE s

\* str.strip()
Strip(s) == RStrip(LStrip(s))

\* dict.get / Series.get with a default
Get(row, col, default) == IF col \in DOMAIN row THEN row[col] ELSE default

Min(a, b) == IF a <= b THEN a ELSE b

Max(a, b) == IF a >= b THEN a ELSE b

RECURSIVE SortedSeq(_)
SortedSeq(S) ==
    IF S = {} THEN <<>>
    ELSE LET m == CHOOSE x \in S : \A y \in S : x <= y
         IN <<m>> \o SortedSeq(S \ {m})

Range(s) == {s[i] : i \in DOMAIN s}

\* a frame with the given columns and rows
Frame(cols, rows) == [columns |-> cols, rows |-> rows]

ScoreExact == 100
ScoreNone == 0

HighConfidence == 90
MediumConfidence == 70

\* sum of f[i] over a sequence of naturals, halving the sequence so that
\* the recursion stays shallow on long sequences
RECURSIVE SumSeq(_)
SumSeq(s) ==
    IF s = <<>> THEN 0
    ELSE IF Len(s) = 1 THEN s[1]
    ELSE SumSeq(SubSeq(s, 1, Len(s) \div 2))
         + SumSeq(SubSeq(s, (Len(s) \div 2) + 1, Len(s)))

\* a / b as an exact fraction, default when b = 0 (Python: a / b if b > 0 else 0)
Ratio(a, b) == IF b > 0 THEN <<a, b>> ELSE <<0, 1>>

(***************************************************************************)
(* ConfigurableDataMatcher (src/services/configurable_data_matcher.py)     *)
(***************************************************************************)

\* _validate_column_mappings: "ok", or the ConfigurableDataMatchingError raised
_validate_column_mappings(m) ==
    IF m = <<>> THEN "mappings_empty"
    ELSE IF \E i \in DOMAIN m : m[i].pos_col = "" \/ m[i].int_col = ""
         THEN "mapping_invalid"
         ELSE "ok"

\* __init__: the instance, or none when the constructor raised
ConfigurableDataMatcher(m) ==
    [constructed |-> _validate_column_mappings(m) = "ok",
     error |-> IF _validate_column_mappings(m) = "ok" THEN "" ELSE _validate_column_mappings(m),
     match_results |-> <<>>]

\* _validate_columns_exist: "ok", or the error it raises
_validate_columns_exist(m, pdf, idf) ==
    IF \E i \in DOMAIN m : m[i].pos_col \notin pdf.columns
    THEN "position_columns_missing"
    ELSE IF \E i \in DOMAIN m : m[i].int_col \notin idf.columns
         THEN "interview_columns_missing"
         ELSE "ok"

\* lines 172-176: the (int_col, pos_value) pairs of the non-empty mapped values
MatchConditions(pos_row, m) ==
    LET all == [i \in DOMAIN m |->
                  [int_col |-> m[i].int_col,
                   pos_value |-> IF Notna(pos_row[m[i].pos_col])
                                 THEN StrOf(pos_row[m[i].pos_col]) ELSE <<>>]]
    IN SelectSeq(all, LAMBDA c : c.pos_value # <<>>)

\* line 220: interview_df[int_col].astype(str) == pos_value, as the set of
\* row positions where the mask is True
ColumnMask(idf, int_col, pos_value) ==
    {i \in DOMAIN idf.rows : StrOf(idf.rows[i][int_col]) = pos_value}

\* lines 217-260: the AND over the conditions; returns the final mask and the
\* exact_match_details dict (keyed by interview column: a later condition on
\* the same column overwrites the earlier entry)
RECURSIVE ExactMatchLoop(_, _, _, _, _)
ExactMatchLoop(idf, conds, k, mask, details) ==
    IF k > Len(conds) THEN [mask |-> mask, details |-> details]
    ELSE IF conds[k].int_col \in idf.columns
         THEN LET column_mask == ColumnMask(idf, conds[k].int_col, conds[k].pos_value)
                  after == mask \cap column_mask
                  entry == [target_value |-> conds[k].pos_value,
                            matches_found |-> Cardinality(column_mask),
                            cumulative_matches |-> Cardinality(after)]
              IN ExactMatchLoop(idf, conds, k + 1, after,
                                (conds[k].int_col :> entry) @@ details)
         ELSE ExactMatchLoop(idf, conds, k + 1, mask, details)

NoDetails == [kind |-> "none", exact |-> <<>>, conditions_checked |-> 0,
              match_conditions |-> <<>>]

\* _find_matches_for_position
_find_matches_for_position(pos_row, idf, m) ==
    LET conds == MatchConditions(pos_row, m)
        loop == ExactMatchLoop(idf, conds, 1, DOMAIN idf.rows, <<>>)
        matched_rows == SortedSeq(loop.mask)
    IN IF conds = <<>>
       THEN [position_row |-> pos_row, interview_rows |-> <<>>,
             match_score |-> ScoreNone,
             match_details |-> [NoDetails EXCEPT !.kind = "no_conditions"],
             matched |-> FALSE]
       ELSE IF matched_rows # <<>>
       THEN [position_row |-> pos_row, interview_rows |-> matched_rows,
             match_score |-> ScoreExact,
             match_details |-> [NoDetails EXCEPT !.kind = "exact",
                                                 !.exact = loop.details],
             matched |-> TRUE]
       ELSE [position_row |-> pos_row, interview_rows |-> <<>>,
             match_score |-> ScoreNone,
             match_details |-> [NoDetails EXCEPT !.kind = "no_match",
                                                 !.conditions_checked = Len(conds),
                                                 !.match_conditions = conds],
             matched |-> FALSE]

\* the medium bucket with its upper end included
MediumBucket_closed(match_score) ==
    match_score >= MediumConfidence /\ match_score <= HighConfidence

\* line 448: 0.7 <= r.match_score < 0.9
MediumBucket(match_score) ==
    match_score >= MediumConfidence /\ match_score < HighConfidence

\* _generate_match_statistics: the 'statistics' dict
_generate_match_statistics(results) ==
    LET matchedOnes == SelectSeq(results, LAMBDA r : r.matched)
        n == Len(matchedOnes)
    IN [total_positions |-> Len(results),
        matched_positions |-> n,
        unmatched_positions |-> Len(results) - n,
        match_rate |-> Ratio(n, Len(results)),
        total_candidates |->
            SumSeq([i \in DOMAIN matchedOnes |-> Len(matchedOnes[i].interview_rows)]),
        high_confidence_matches |->
            Len(SelectSeq(matchedOnes, LAMBDA r : r.match_score >= HighConfidence)),
        medium_confidence_matches |->
            Len(SelectSeq(matchedOnes, LAMBDA r : MediumBucket(r.match_score))),
        low_confidence_matches |->
            Len(SelectSeq(matchedOnes, LAMBDA r : r.match_score < MediumConfidence)),
        average_match_score |->
            Ratio(SumSeq([i \in DOMAIN matchedOnes |-> matchedOnes[i].match_score]), n)]

\* the results of the earlier call are kept instead of cleared
ClearedMatchResults_kept(old) == old

\* line 108: self.match_results.clear()
ClearedMatchResults(old) == <<>>

\* lines 115-124: one result per position row, appended in row order
RECURSIVE MatchLoop(_, _, _, _, _)
MatchLoop(pdf, idf, m, k, acc) ==
    IF k > Len(pdf.rows) THEN acc
    ELSE MatchLoop(pdf, idf, m, k + 1,
                   Append(acc, _find_matches_for_position(pdf.rows[k], idf, m)))

\* match_data: the instance's match_results after the call
MatchDataResults(old, pdf, idf, m) ==
    IF _validate_columns_exist(m, pdf, idf) # "ok" THEN old
    ELSE MatchLoop(pdf, idf, m, 1, ClearedMatchResults(old))

\* lines 126-133: the returned dict, or the error raised by the column check
MatchDataOutcome(check, results) ==
    IF check # "ok"
    THEN [status |-> "raised", error |-> check,
          match_results |-> <<>>, statistics |-> _generate_match_statistics(<<>>)]
    ELSE [status |-> "ok", error |-> "",
          match_results |-> results,
          statistics |-> _generate_match_statistics(results)]

\* match_data: what the call returns, or the error it raises
MatchDataReturn(old, pdf, idf, m) ==
    MatchDataOutcome(_validate_columns_exist(m, pdf, idf),
                     MatchDataResults(old, pdf, idf, m))

(***************************************************************************)
(* FastDataMatcher (src/services/fast_data_matcher.py)                     *)
(***************************************************************************)
FastBatchSize == 50

\* __init__: no validation of the mapping
FastDataMatcher(m) == [interview_indices |-> <<>>]

\* the key without the trimming
IndexKey_untrimmed(value) == IF Notna(value) THEN StrOf(value) ELSE <<>>

\* line 56: str_value = str(value).strip() if pd.notna(value) else ""
IndexKey(value) == IF Notna(value) THEN Strip(StrOf(value)) ELSE <<>>

\* lines 55-60: the rows in dataset order, each appended to the list of its
\* key; an empty key is not indexed
RECURSIVE IndexLoop(_, _, _, _)
IndexLoop(idf, int_col, idx, index) ==
    IF idx > Len(idf.rows) THEN index
    ELSE LET str_value == IndexKey(idf.rows[idx][int_col])
         IN IF str_value = <<>>
            THEN IndexLoop(idf, int_col, idx + 1, index)
            ELSE IndexLoop(idf, int_col, idx + 1,
                           (str_value :> Append(Get(index, str_value, <<>>), idx))
                               @@ index)

\* lines 52-60: the index of one column, started from the empty dict
ColumnIndex(idf, int_col) == IndexLoop(idf, int_col, 1, <<>>)

\* build_indices: the indices after the call (entries of other columns stay)
RECURSIVE build_indices(_, _, _, _)
build_indices(indices, idf, m, k) ==
    IF k > Len(m) THEN indices
    ELSE IF m[k].int_col \in idf.columns
         THEN build_indices((m[k].int_col :> ColumnIndex(idf, m[k].int_col)) @@ indices,
                            idf, m, k + 1)
         ELSE build_indices(indices, idf, m, k + 1)

\* clear_indices: self.interview_indices.clear()
clear_indices(f) == [f EXCEPT !.interview_indices = <<>>]

\* lines 81-83: build the indices only when none are held
IndicesForMatch(indices, idf, m) ==
    IF DOMAIN indices = {} THEN build_indices(indices, idf, m, 1) ELSE indices

\* lines 145-162: the intersection over the conditions.  ci.none stands for
\* candidate_indices = None.
RECURSIVE CandidateIndices(_, _, _, _, _)
CandidateIndices(pos_row, indices, m, k, ci) ==
    IF k > Len(m) THEN ci
    ELSE LET pos_value == Strip(StrOf(Get(pos_row, m[k].pos_col, <<>>)))
             int_col == m[k].int_col
         IN IF pos_value = <<>> \/ pos_value = <<"n", "a", "n">>
            THEN CandidateIndices(pos_row, indices, m, k + 1, ci)
            ELSE IF int_col \in DOMAIN indices
            THEN LET col_indices == Range(Get(indices[int_col], pos_value, <<>>))
                     next == IF ci.none THEN col_indices ELSE ci.set \cap col_indices
                 IN IF next = {} THEN [none |-> FALSE, set |-> {}]
                    ELSE CandidateIndices(pos_row, indices, m, k + 1,
                                          [none |-> FALSE, set |-> next])
            ELSE CandidateIndices(pos_row, indices, m, k + 1, ci)

\* _match_single_position_fast; raised when iloc is given a position the
\* frame does not have (IndexError)
_match_single_position_fast(pos_row, idf, indices, m) ==
    LET ci == CandidateIndices(pos_row, indices, m, 1, [none |-> TRUE, set |-> {}])
    IN IF ci.set # {}
       THEN [position_row |-> pos_row, interview_rows |-> SortedSeq(ci.set),
             match_score |-> ScoreExact, matched |-> TRUE,
             raised |-> ~(ci.set \subseteq DOMAIN idf.rows)]
       ELSE [position_row |-> pos_row, interview_rows |-> <<>>,
             match_score |-> ScoreNone, matched |-> FALSE, raised |-> FALSE]

\* the batch count rounded down instead of up
FastTotalBatches_floor(n) == n \div FastBatchSize

\* line 92
FastTotalBatches(n) == (n + FastBatchSize - 1) \div FastBatchSize

\* line 96
FastEndIdx(start_idx, n) == Min(start_idx + FastBatchSize, n)

\* lines 94-105: the batches, each a slice position_df.iloc[start_idx:end_idx]
RECURSIVE FastBatchLoop(_, _, _, _, _, _)
FastBatchLoop(batch_idx, pdf, idf, indices, m, acc) ==
    IF batch_idx >= FastTotalBatches(Len(pdf.rows)) THEN acc
    ELSE LET start_idx == batch_idx * FastBatchSize
             end_idx == FastEndIdx(start_idx, Len(pdf.rows))
             batch == SubSeq(pdf.rows, start_idx + 1, end_idx)
         IN FastBatchLoop(batch_idx + 1, pdf, idf, indices, m,
                acc \o [j \in DOMAIN batch |->
                          _match_single_position_fast(batch[j], idf, indices, m)])

\* lines 115-122: the 'statistics' dict (match_time left out)
FastStatistics(pdf, results) ==
    LET matchedOnes == SelectSeq(results, LAMBDA r : r.matched)
    IN [total_positions |-> Len(pdf.rows),
        matched_positions |-> Len(matchedOnes),
        unmatched_positions |-> Len(pdf.rows) - Len(matchedOnes),
        match_rate |-> Ratio(Len(matchedOnes), Len(pdf.rows)),
        total_candidates |->
            SumSeq([i \in DOMAIN matchedOnes |-> Len(matchedOnes[i].interview_rows)])]

\* match_data_fast: what the call returns, or the error it raises
match_data_fast(indices, pdf, idf, m) ==
    LET idx == IndicesForMatch(indices, idf, m)
        results == FastBatchLoop(0, pdf, idf, idx, m, <<>>)
    IN IF \E i \in DOMAIN results : results[i].raised
       THEN [status |-> "raised", error |-> "IndexError", match_results |-> <<>>,
             statistics |-> FastStatistics(Frame({}, <<>>), <<>>)]
       ELSE [status |-> "ok", error |-> "", match_results |-> results,
             statistics |-> FastStatistics(pdf, results)]

(***************************************************************************)
(* OptimizedProcessingEngine (src/services/optimized_processing_engine.py) *)
(***************************************************************************)
OptMinBatchSize == 10
OptBatchDivisor == 20

NoFrame == [loaded |-> FALSE, df |-> Frame({}, <<>>)]

NoIndex == [built |-> FALSE, index |-> <<>>]

\* __init__: the caches and the index are None
OptimizedProcessingEngine ==
    [_position_cache |-> NoFrame, _interview_cache |-> NoFrame,
     _interview_index |-> NoIndex]

\* _load_data_optimized: a cache already held is returned instead of the file
_load_data_optimized(cache, file) ==
    IF cache.loaded THEN cache ELSE [loaded |-> TRUE, df |-> file]

\* lines 131-135: groupby(int_col) of one column, {raw value: row labels};
\* groupby drops the missing values
GroupIndex(idf, int_col) ==
    LET keys == {idf.rows[i][int_col] : i \in DOMAIN idf.rows} \ {NaN}
    IN [v \in keys |-> SortedSeq({i \in DOMAIN idf.rows : idf.rows[i][int_col] = v})]

RECURSIVE GroupIndices(_, _, _, _)
GroupIndices(index, idf, m, k) ==
    IF k > Len(m) THEN index
    ELSE IF m[k].int_col \in idf.columns
         THEN GroupIndices((m[k].int_col :> GroupIndex(idf, m[k].int_col)) @@ index,
                           idf, m, k + 1)
         ELSE GroupIndices(index, idf, m, k + 1)

\* _build_interview_index: an index already held is kept
_build_interview_index(held, idf, m) ==
    IF held.built THEN held
    ELSE [built |-> TRUE, index |-> GroupIndices(<<>>, idf, m, 1)]

\* lines 225-242: the intersection over the conditions
RECURSIVE MatchedIndices(_, _, _, _, _)
MatchedIndices(pos_row, index, m, k, mi) ==
    IF k > Len(m) THEN mi
    ELSE LET pos_value == StrOf(Get(pos_row, m[k].pos_col, <<>>))
             int_col == m[k].int_col
         IN IF pos_value = <<>> \/ pos_value = <<"n", "a", "n">>
            THEN MatchedIndices(pos_row, index, m, k + 1, mi)
            ELSE IF int_col \in DOMAIN index
            THEN LET col_matches == Range(Get(index[int_col], pos_value, <<>>))
                     next == IF mi.none THEN col_matches ELSE mi.set \cap col_matches
                 IN IF next = {} THEN [none |-> FALSE, set |-> {}]
                    ELSE MatchedIndices(pos_row, index, m, k + 1,
                                        [none |-> FALSE, set |-> next])
            ELSE MatchedIndices(pos_row, index, m, k + 1, mi)

\* _find_matches_with_index: the matched row positions, as a list
_find_matches_with_index(pos_row, held, m) ==
    IF ~held.built \/ DOMAIN held.index = {} THEN <<>>
    ELSE SortedSeq(MatchedIndices(pos_row, held.index, m, 1,
                                  [none |-> TRUE, set |-> {}]).set)

\* lines 175-211: the result of one position.  matched_indices is the list
\* _find_matches_with_index returned (the code keeps only its length);
\* the frames matched here have no score column, so min_score is 0.
OptMatchOne(pos_row, idf, held, m) ==
    LET matched_indices == _find_matches_with_index(pos_row, held, m)
    IN [original_position_data |-> pos_row,
        matched |-> matched_indices # <<>>,
        candidate_count |-> Len(matched_indices),
        matched_indices |-> matched_indices,
        min_score |-> 0,
        raised |-> ~(Range(matched_indices) \subseteq DOMAIN idf.rows)]

\* _match_batch_positions
_match_batch_positions(batch, idf, held, m) ==
    [j \in DOMAIN batch |-> OptMatchOne(batch[j], idf, held, m)]

\* line 151
OptBatchSize(total_positions) ==
    Max(OptMinBatchSize, total_positions \div OptBatchDivisor)

\* lines 153-159: for i in range(0, total_positions, batch_size)
RECURSIVE OptBatchLoop(_, _, _, _, _, _)
OptBatchLoop(i, pdf, idf, held, m, acc) ==
    IF i >= Len(pdf.rows) THEN acc
    ELSE LET batch_end == Min(i + OptBatchSize(Len(pdf.rows)), Len(pdf.rows))
             batch == SubSeq(pdf.rows, i + 1, batch_end)
         IN OptBatchLoop(i + OptBatchSize(Len(pdf.rows)), pdf, idf, held, m,
                         acc \o _match_batch_positions(batch, idf, held, m))

\* _batch_match_optimized
_batch_match_optimized(pdf, idf, held, m) == OptBatchLoop(0, pdf, idf, held, m, <<>>)

\* process_files_optimized: the result dict; an exception becomes success=False
process_files_optimized(o, position_file, interview_file, m) ==
    LET pc == _load_data_optimized(o._position_cache, position_file)
        ic == _load_data_optimized(o._interview_cache, interview_file)
        held == _build_interview_index(o._interview_index, ic.df, m)
        results == _batch_match_optimized(pc.df, ic.df, held, m)
        matchedOnes == SelectSeq(results, LAMBDA r : r.matched)
    IN IF \E i \in DOMAIN results : results[i].raised
       THEN [success |-> FALSE, results |-> <<>>, total_positions |-> 0,
             matched_positions |-> 0, unmatched_positions |-> 0,
             total_candidates |-> 0, match_rate |-> Ratio(0, 0)]
       ELSE [success |-> TRUE, results |-> results,
             total_positions |-> Len(results),
             matched_positions |-> Len(matchedOnes),
             unmatched_positions |-> Len(results) - Len(matchedOnes),
             total_candidates |->
                 SumSeq([i \in DOMAIN matchedOnes |-> matchedOnes[i].candidate_count]),
             match_rate |-> Ratio(Len(matchedOnes), Len(results))]

\* clear_cache: the caches and the index are None again
clear_cache(o) == OptimizedProcessingEngine

\* the instance after process_files_optimized
OptAfterProcess(o, position_file, interview_file, m) ==
    LET pc == _load_data_optimized(o._position_cache, position_file)
        ic == _load_data_optimized(o._interview_cache, interview_file)
    IN [_position_cache |-> pc, _interview_cache |-> ic,
        _interview_index |-> _build_interview_index(o._interview_index, ic.df, m)]

(***************************************************************************)
(* ProcessingEngine (src/services/processing_engine.py) with the legacy    *)
(* DataMatcher (src/services/data_matcher.py).                             *)
(*                                                                         *)
(* Column names and status texts are Chinese in the source; they are       *)
(* written here in pinyin.  The tables of the model use the characters     *)
(* x y z X w, the digits, the blank and the Chinese characters of the stop  *)
(* words and keywords, each one element written in pinyin; the text        *)
(* functions below are exact on that alphabet.                             *)
(***************************************************************************)
ColPositionName == "zhaokao_zhiwei"        \* '招考职位'
ColPositionNameAlt == "gangwei_mingcheng"  \* '岗位名称'
ColPositionCode == "zhiwei_daima"          \* '职位代码'
ColPositionCodeAlt == "gangwei_daima"      \* '岗位代码'
ColDepartment == "yongren_siju"            \* '用人司局'
ColRecruitCount == "zhaokao_renshu"        \* '招考人数'
ColName == "xingming"                      \* '姓名'
ColScore == "fenshu"                       \* '分数'

StatusUnmatched == "wufa_pipei"            \* "无法匹配"
StatusNoCandidates == "wu_mianshi_renyuan" \* "无面试人员"
StatusAnomaly == "shuju_yichang"           \* "数据异常"
StatusNormal == "zhengchang"               \* "正常"

\* Optional[...]: None is the empty sequence, a value v is <<v>>
None == <<>>

Digits == {"0", "1", "2", "3", "4", "5", "6", "7", "8", "9"}

DigitValue(c) ==
    CASE c = "0" -> 0 [] c = "1" -> 1 [] c = "2" -> 2 [] c = "3" -> 3
      [] c = "4" -> 4 [] c = "5" -> 5 [] c = "6" -> 6 [] c = "7" -> 7
      [] c = "8" -> 8 [] c = "9" -> 9

RECURSIVE DecimalValue(_)
DecimalValue(s) ==
    IF s = <<>> THEN 0
    ELSE 10 * DecimalValue(SubSeq(s, 1, Len(s) - 1)) + DigitValue(s[Len(s)])

\* int(value): a number cell is written as its digits; NaN and text that is
\* not a number raise ValueError (ok = FALSE)
PyInt(v) ==
    LET t == IF v = NaN THEN <<>> ELSE Strip(v)
    IN IF v # NaN /\ t # <<>> /\ Range(t) \subseteq Digits
       THEN [ok |-> TRUE, value |-> DecimalValue(t)]
       ELSE [ok |-> FALSE, value |-> 0]

\* str.lower()
LowerChar(c) == IF c = "X" THEN "x" ELSE c

Lower(s) == [i \in DOMAIN s |-> LowerChar(s[i])]

\* re.sub(r'\s+', '', s)
NoSpace(s) == SelectSeq(s, LAMBDA c : c # " ")

\* re.sub(r'\s+', ' ', s)
RECURSIVE CollapseSpaces(_)
CollapseSpaces(s) ==
    IF Len(s) < 2 THEN s
    ELSE IF s[1] = " " /\ s[2] = " " THEN CollapseSpaces(Tail(s))
         ELSE <<s[1]>> \o CollapseSpaces(Tail(s))

\* _standardize_text
_standardize_text(text) ==
    LET text_str == CollapseSpaces(Strip(StrOf(text)))
    IN IF Lower(text_str) \in {<<"n", "a", "n">>, <<"n", "u", "l", "l">>,
                               <<"n", "o", "n", "e">>, <<>>}
       THEN <<>>
       ELSE Strip(text_str)

\* ExcelReader.read_excel_sheet: the raw sheet, the code columns as text
read_excel_sheet(file) ==
    Frame(file.columns,
          [i \in DOMAIN file.rows |->
              [c \in file.columns |->
                  IF c \in {ColPositionCode, ColPositionCodeAlt}
                  THEN StrOf(file.rows[i][c]) ELSE file.rows[i][c]]])

\* _read_position_file: the legacy position dicts (read_position_file,
\* extract_position_info, _preprocess_position_data); rows without a usable
\* position name are left out, and no remaining row is an error
_read_position_file(file) ==
    LET sheet == read_excel_sheet(file)
        kept == SelectSeq(sheet.rows,
                    LAMBDA r : _standardize_text(Get(r, ColPositionName, <<>>)) # <<>>)
        data == [i \in DOMAIN kept |->
                   [position_code |->
                        _standardize_text(Strip(StrOf(Get(kept[i], ColPositionCode, <<>>)))),
                    position_name |-> _standardize_text(kept[i][ColPositionName]),
                    department |-> _standardize_text(Get(kept[i], ColDepartment, <<"s">>)),
                    sheet_name |-> <<"s">>]]
    IN [ok |-> data # <<>>, data |-> data]

\* a candidate's score: None, a number, or a text
NoScore == [type |-> "NoneType"]
FloatScore(n) == [type |-> "float", number |-> n]
StrScore(s) == [type |-> "str", text |-> s]

\* _read_interview_file: the legacy candidate dicts (read_interview_file,
\* extract_interview_info, _preprocess_interview_data); rows without a name,
\* a position or a numeric score are left out
_read_interview_file(file) ==
    LET usable(r) == /\ _standardize_text(Get(r, ColName, <<>>)) # <<>>
                     /\ _standardize_text(Get(r, ColPositionName, <<>>)) # <<>>
                     /\ PyInt(Get(r, ColScore, NaN)).ok
        kept == SelectSeq(file.rows, usable)
        data == [i \in DOMAIN kept |->
                   [name |-> _standardize_text(kept[i][ColName]),
                    position_name |-> _standardize_text(kept[i][ColPositionName]),
                    score |-> FloatScore(PyInt(kept[i][ColScore]).value)]]
    IN [ok |-> data # <<>>, data |-> data]

\* --- DataMatcher (legacy matching by position name) ---
FuzzyThreshold == 80

\* _extract_interview_positions: the unique trimmed position names
_extract_interview_positions(interview_data) ==
    {Strip(interview_data[i].position_name) : i \in DOMAIN interview_data} \ {<<>>}

\* list(positions): the set as a list; its order is the set's iteration order
RECURSIVE ListOf(_)
ListOf(S) ==
    IF S = {} THEN <<>>
    ELSE LET x == CHOOSE x \in S : TRUE IN <<x>> \o ListOf(S \ {x})

\* the first element of the list that passes the test, or None
FirstWhere(list, Test(_)) ==
    LET hits == {i \in DOMAIN list : Test(list[i])}
    IN IF hits = {} THEN None
       ELSE <<list[CHOOSE i \in hits : \A j \in hits : i <= j]>>

\* _exact_match: direct, then case-insensitive, then whitespace-insensitive
\* equality; the matched interview position or None
_exact_match(position_name, interview_positions) ==
    IF \E i \in DOMAIN interview_positions : interview_positions[i] = position_name
    THEN <<position_name>>
    ELSE IF \E i \in DOMAIN interview_positions :
                Lower(interview_positions[i]) = Lower(position_name)
    THEN FirstWhere(interview_positions, LAMBDA ip : Lower(ip) = Lower(position_name))
    ELSE FirstWhere(interview_positions, LAMBDA ip : NoSpace(ip) = NoSpace(position_name))

\* `sub in s`
IsSubstring(sub, s) ==
    \E i \in 0..(Len(s) - Len(sub)) : SubSeq(s, i + 1, i + Len(sub)) = sub

\* _code_match: the first interview position whose name contains the code
_code_match(position_code, interview_positions) ==
    IF position_code = <<>> THEN None
    ELSE FirstWhere(interview_positions, LAMBDA ip : IsSubstring(position_code, ip))

\* line 339: stop_words, one element per Chinese character
StopWords ==
    << <<"gang", "wei4">>,    \* '岗位'
       <<"zhi", "wei4">>,     \* '职位'
       <<"gong", "zuo">>,     \* '工作'
       <<"ren", "yuan">>,     \* '人员'
       <<"zhuan", "yuan">>,   \* '专员'
       <<"zhu4", "li">>,      \* '助理'
       <<"zhu3", "guan">>,    \* '主管'
       <<"jing", "li">>,      \* '经理'
       <<"zong", "jian1">>,   \* '总监'
       <<"shi1">> >>          \* '师'

\* line 364: common_keywords
CommonKeywords ==
    { <<"ruan", "jian4">>,    \* '软件'
      <<"gong", "cheng">>,    \* '工程'
      <<"kai", "fa">>,        \* '开发'
      <<"chan", "pin">>,      \* '产品'
      <<"jing", "li">>,       \* '经理'
      <<"she", "ji">>,        \* '设计'
      <<"qian", "duan">>,     \* '前端'
      <<"hou", "duan">>,      \* '后端'
      <<"shu", "ju">>,        \* '数据'
      <<"fen", "xi">>,        \* '分析'
      <<"ce", "shi4">>,       \* '测试'
      <<"yun", "wei2">> }     \* '运维'

\* str.replace(word, ''): every occurrence removed, left to right
RECURSIVE Remove(_, _)
Remove(s, word) ==
    IF Len(s) < Len(word) THEN s
    ELSE IF SubSeq(s, 1, Len(word)) = word
         THEN Remove(SubSeq(s, Len(word) + 1, Len(s)), word)
         ELSE <<Head(s)>> \o Remove(Tail(s), word)

RECURSIVE RemoveStopWords(_, _)
RemoveStopWords(s, k) ==
    IF k > Len(StopWords) THEN s
    ELSE RemoveStopWords(Remove(s, StopWords[k]), k + 1)

\* _clean_position_name: the stop words, then every non-word character removed
_clean_position_name(position_name) == Strip(NoSpace(RemoveStopWords(position_name, 1)))

\* _contains_keywords: some keyword occurs in both names
_contains_keywords(position1, position2) ==
    \E keyword \in CommonKeywords :
        IsSubstring(keyword, position1) /\ IsSubstring(keyword, position2)

\* length of the common run of a[i..ahi] and b[j..bhi]
RECURSIVE CommonRun(_, _, _, _, _, _)
CommonRun(a, b, i, j, ahi, bhi) ==
    IF i > ahi \/ j > bhi \/ a[i] # b[j] THEN 0
    ELSE 1 + CommonRun(a, b, i + 1, j + 1, ahi, bhi)

\* difflib find_longest_match in a[alo..ahi], b[blo..bhi]: the longest block,
\* the one starting earliest in a, then earliest in b
LongestMatch(a, b, alo, ahi, blo, bhi) ==
    LET starts == (alo..ahi) \X (blo..bhi)
        size(p) == CommonRun(a, b, p[1], p[2], ahi, bhi)
        best == CHOOSE p \in starts :
                   \A q \in starts :
                      \/ size(p) > size(q)
                      \/ size(p) = size(q) /\ p[1] < q[1]
                      \/ size(p) = size(q) /\ p[1] = q[1] /\ p[2] <= q[2]
    IN IF starts = {} THEN [i |-> alo, j |-> blo, size |-> 0]
       ELSE [i |-> best[1], j |-> best[2], size |-> size(best)]

\* number of matched characters over all matching blocks
RECURSIVE MatchedChars(_, _, _, _, _, _)
MatchedChars(a, b, alo, ahi, blo, bhi) ==
    LET lm == LongestMatch(a, b, alo, ahi, blo, bhi)
    IN IF lm.size = 0 THEN 0
       ELSE lm.size + MatchedChars(a, b, alo, lm.i - 1, blo, lm.j - 1)
                    + MatchedChars(a, b, lm.i + lm.size, ahi, lm.j + lm.size, bhi)

\* SequenceMatcher(None, a, b).ratio() = 2*M/T as a fraction (1.0 when T = 0)
SequenceRatio(a, b) ==
    IF Len(a) + Len(b) = 0 THEN <<1, 1>>
    ELSE <<2 * MatchedChars(a, b, 1, Len(a), 1, Len(b)), Len(a) + Len(b)>>

\* a ratio equal to the best so far also replaces it
RatioGreater_or_equal(r, q) == r[1] * q[2] >= q[1] * r[2]

\* line 323: ratio > best_ratio, on fractions <<numerator, denominator>>
RatioGreater(r, q) == r[1] * q[2] > q[1] * r[2]

\* ratio >= threshold, the threshold in hundredths
ReachesThreshold(r, threshold) == r[1] * 100 >= threshold * r[2]

\* line 321: min(1.0, ratio + 0.1)
KeywordBonus(r) ==
    IF 10 * r[1] + r[2] >= 10 * r[2] THEN <<1, 1>> ELSE <<10 * r[1] + r[2], 10 * r[2]>>

\* line 317-321: the ratio of one interview position
FuzzyRatio(cleaned_position, interview_pos) ==
    LET cleaned_interview == _clean_position_name(interview_pos)
        ratio == SequenceRatio(cleaned_position, cleaned_interview)
    IN IF _contains_keywords(cleaned_position, cleaned_interview)
       THEN KeywordBonus(ratio) ELSE ratio

\* lines 313-325: the loop keeps the first position with the highest ratio
RECURSIVE FuzzyLoop(_, _, _, _)
FuzzyLoop(cleaned_position, interview_positions, k, best) ==
    IF k > Len(interview_positions) THEN best
    ELSE FuzzyLoop(cleaned_position, interview_positions, k + 1,
                   IF RatioGreater(FuzzyRatio(cleaned_position, interview_positions[k]),
                                   best.best_ratio)
                   THEN [best_match |-> <<interview_positions[k]>>,
                         best_ratio |-> FuzzyRatio(cleaned_position,
                                                   interview_positions[k])]
                   ELSE best)

\* _fuzzy_match: (best_match, best_ratio), (None, 0.0) when no ratio is above 0
_fuzzy_match(position_name, interview_positions) ==
    FuzzyLoop(_clean_position_name(position_name), interview_positions, 1,
              [best_match |-> None, best_ratio |-> <<0, 1>>])

MatchResult(position_name, interview_position, match_type, confidence, matched) ==
    [position_name |-> position_name, interview_position |-> interview_position,
     match_type |-> match_type, confidence |-> confidence, matched |-> matched]

\* the code tier before the exact tier
TierOrder_code_first(exact_match, code_match) ==
    IF code_match # None THEN "code" ELSE IF exact_match # None THEN "exact" ELSE "fuzzy"

\* lines 203-223: the exact tier is tried first, the code tier second
TierOrder(exact_match, code_match) ==
    IF exact_match # None THEN "exact" ELSE IF code_match # None THEN "code" ELSE "fuzzy"

\* line 227: if fuzzy_match and confidence >= self.fuzzy_threshold
FuzzyAccepted(fuzzy, fuzzy_threshold) ==
    /\ fuzzy.best_match # None
    /\ fuzzy.best_match[1] # <<>>
    /\ ReachesThreshold(fuzzy.best_ratio, fuzzy_threshold)

\* lines 225-243: the fuzzy tier, or no match
FuzzyTier(position_name, fuzzy, fuzzy_threshold) ==
    IF FuzzyAccepted(fuzzy, fuzzy_threshold)
    THEN MatchResult(position_name, fuzzy.best_match[1], "fuzzy", fuzzy.best_ratio, TRUE)
    ELSE MatchResult(position_name, <<>>, "none", <<0, 1>>, FALSE)

\* lines 203-223: the result of the tier that hit
TierResult(tier, position_name, exact_match, code_match, fuzzy, fuzzy_threshold) ==
    IF tier = "exact"
    THEN MatchResult(position_name, exact_match[1], "exact", <<1, 1>>, TRUE)
    ELSE IF tier = "code"
    THEN MatchResult(position_name, code_match[1], "code", <<95, 100>>, TRUE)
    ELSE FuzzyTier(position_name, fuzzy, fuzzy_threshold)

\* _find_best_match
_find_best_match(position, interview_positions, fuzzy_threshold) ==
    TierResult(TierOrder(_exact_match(position.position_name, interview_positions),
                         _code_match(position.position_code, interview_positions)),
               position.position_name,
               _exact_match(position.position_name, interview_positions),
               _code_match(position.position_code, interview_positions),
               _fuzzy_match(position.position_name, interview_positions),
               fuzzy_threshold)

\* match_positions: lines 94-102 build PositionMapping without its required
\* department_name and recruit_count, so the first matched position raises
\* TypeError, re-raised as DataMatchingError
match_positions(position_data, interview_data) ==
    LET interview_positions == _extract_interview_positions(interview_data)
    IN IF position_data = <<>> \/ interview_data = <<>>
       THEN [ok |-> FALSE, error |-> "ValidationError",
             mappings |-> <<>>, unmatched_positions |-> <<>>]
       ELSE IF \E i \in DOMAIN position_data :
                  _find_best_match(position_data[i], ListOf(interview_positions),
                                   FuzzyThreshold).matched
       THEN [ok |-> FALSE, error |-> "DataMatchingError",
             mappings |-> <<>>, unmatched_positions |-> <<>>]
       ELSE [ok |-> TRUE, error |-> "",
             mappings |-> <<>>, unmatched_positions |-> position_data]

\* --- ProcessingEngine steps 4 and 5 ---

\* int(d.get('招考人数', 0)) if d.get('招考人数') else 0
RecruitCount(d) ==
    LET v == Get(d, ColRecruitCount, <<>>)
    IN IF v = <<>> \/ (PyInt(v).ok /\ PyInt(v).value = 0)
       THEN [ok |-> TRUE, value |-> 0]
       ELSE PyInt(v)

\* PositionScoreResult with its __post_init__: text fields are trimmed, and
\* trimming a field that is NaN raises AttributeError (ok = FALSE)
PositionScoreResult(position_code, position_name, recruit_count, candidate_count, min_score, status, all_scores) ==
    [ok |-> position_name # NaN,
     result |-> [position_code |-> Strip(position_code),
                 position_name |-> IF position_name = NaN THEN <<>>
                                   ELSE Strip(position_name),
                 recruit_count |-> recruit_count,
                 candidate_count |-> candidate_count,
                 min_score |-> min_score,
                 status |-> status,
                 all_scores |-> all_scores]]

\* _convert_configurable_results: PositionMapping objects for the matched
\* results, the position rows of the others; any exception gives the empty
\* result instead
_convert_configurable_results(configurable_results, idf) ==
    LET rs == configurable_results.match_results
        matchedOnes == SelectSeq(rs, LAMBDA r : r.matched)
        mapping(r) ==
            [position_code |->
                 StrOf(Get(r.position_row, ColPositionCode,
                           Get(r.position_row, ColPositionCodeAlt, <<>>))),
             position_name |->
                 Get(r.position_row, ColPositionName,
                     Get(r.position_row, ColPositionNameAlt, <<>>)),
             recruit_count |-> RecruitCount(r.position_row).value,
             interview_position |->
                 Get(idf.rows[r.interview_rows[1]], ColPositionName, <<>>),
             match_confidence |-> r.match_score,
             candidate_count |-> Len(r.interview_rows)]
    IN IF \E i \in DOMAIN matchedOnes : ~RecruitCount(matchedOnes[i].position_row).ok
       THEN [mappings |-> <<>>, unmatched_positions |-> <<>>]
       ELSE [mappings |-> [i \in DOMAIN matchedOnes |-> mapping(matchedOnes[i])],
             unmatched_positions |->
                 LET others == SelectSeq(rs, LAMBDA r : ~r.matched)
                 IN [i \in DOMAIN others |-> others[i].position_row]]

\* `if column_mappings:` (line 629): None and the empty dict are both falsy
MappingGiven(cm) == cm.given /\ cm.pairs # <<>>

\* lines 648-654: the configurable matcher's outcome in the legacy format
ConfigurableOutcome(matcher, ret, idf) ==
    IF ~matcher.constructed
    THEN [ok |-> FALSE, error |-> matcher.error, matcher |-> "configurable",
          mappings |-> <<>>, unmatched_positions |-> <<>>]
    ELSE IF ret.status # "ok"
    THEN [ok |-> FALSE, error |-> ret.error, matcher |-> "configurable",
          mappings |-> <<>>, unmatched_positions |-> <<>>]
    ELSE [ok |-> TRUE, error |-> "", matcher |-> "configurable",
          mappings |-> _convert_configurable_results(ret, idf).mappings,
          unmatched_positions |->
              _convert_configurable_results(ret, idf).unmatched_positions]

\* line 657: the legacy matcher's outcome
LegacyOutcome(legacy) ==
    [ok |-> legacy.ok, error |-> legacy.error, matcher |-> "legacy",
     mappings |-> legacy.mappings,
     unmatched_positions |-> legacy.unmatched_positions]

\* _match_position_data: with a mapping the raw sheets are read again and
\* matched by ConfigurableDataMatcher, otherwise by the legacy matcher; every
\* exception becomes ProcessingEngineError
_match_position_data(position_data, interview_data, cm, position_file, interview_file) ==
    IF MappingGiven(cm)
    THEN ConfigurableOutcome(ConfigurableDataMatcher(cm.pairs),
                             MatchDataReturn(<<>>, read_excel_sheet(position_file),
                                             read_excel_sheet(interview_file), cm.pairs),
                             read_excel_sheet(interview_file))
    ELSE LegacyOutcome(match_positions(position_data, interview_data))

\* sorted(scores, reverse=True)
RECURSIVE SortedDesc(_)
SortedDesc(scores) ==
    IF scores = <<>> THEN <<>>
    ELSE LET k == CHOOSE i \in DOMAIN scores : \A j \in DOMAIN scores : scores[i] >= scores[j]
         IN <<scores[k]>> \o SortedDesc(SubSeq(scores, 1, k - 1)
                                        \o SubSeq(scores, k + 1, Len(scores)))

\* float(score) of lines 861-866: a number as it is, a text trimmed and
\* parsed, which raises ValueError unless it is a number (the texts of the
\* model are digit strings or no numbers at all)
PyFloat(score) ==
    IF score.type = "float" THEN [ok |-> TRUE, value |-> score.number]
    ELSE IF score.type = "str" THEN PyInt(score.text)
    ELSE [ok |-> FALSE, value |-> 0]

\* lines 853-871: the scores of the candidates in order, a candidate whose
\* score is None or does not convert being skipped
RECURSIVE ValidScores(_)
ValidScores(position_candidates) ==
    IF position_candidates = <<>> THEN <<>>
    ELSE LET score == Head(position_candidates).score
         IN (IF score.type # "NoneType" /\ PyFloat(score).ok
             THEN <<PyFloat(score).value>> ELSE <<>>)
            \o ValidScores(Tail(position_candidates))

\* the status chosen by lines 828 and 873, the other way round
ScoreStatus_scores_first(position_candidates, scores) ==
    IF scores = <<>> THEN StatusAnomaly
    ELSE IF position_candidates = <<>> THEN StatusNoCandidates
    ELSE StatusNormal

\* the status chosen by lines 828 (`if not position_candidates`) and 873
\* (`if not scores`)
ScoreStatus(position_candidates, scores) ==
    IF position_candidates = <<>> THEN StatusNoCandidates
    ELSE IF scores = <<>> THEN StatusAnomaly
    ELSE StatusNormal

\* _process_matched_position: the candidates are the candidate dicts whose
\* position_name equals the mapping's interview_position; min_score is None
\* in every branch
_process_matched_position(mapping, interview_data) ==
    LET position_candidates ==
            SelectSeq(interview_data,
                      LAMBDA c : c.position_name = mapping.interview_position)
        scores == ValidScores(position_candidates)
        status == ScoreStatus(position_candidates, scores)
    IN PositionScoreResult(mapping.position_code, mapping.position_name,
                           mapping.recruit_count,
                           IF status = StatusNoCandidates THEN 0
                           ELSE IF status = StatusAnomaly THEN Len(position_candidates)
                           ELSE Len(scores),
                           None, status,
                           IF status = StatusNormal THEN SortedDesc(scores) ELSE <<>>)

\* _process_unmatched_position: reads the sheet's own column names from the
\* position, so a legacy dict gives an empty name and code
_process_unmatched_position(position) ==
    LET made == PositionScoreResult(
                    StrOf(Get(position, ColPositionCode,
                              Get(position, ColPositionCodeAlt, <<>>))),
                    Get(position, ColPositionName,
                        Get(position, ColPositionNameAlt, <<>>)),
                    RecruitCount(position).value, 0, None, StatusUnmatched, <<>>)
    IN [ok |-> RecruitCount(position).ok /\ made.ok, result |-> made.result]

\* _calculate_min_scores: the matched positions first, then the unmatched
\* ones; a position whose processing raises is left out with a warning
_calculate_min_scores(match_results, interview_data) ==
    LET all_positions ==
            [i \in DOMAIN match_results.mappings |->
                _process_matched_position(match_results.mappings[i], interview_data)]
            \o [i \in DOMAIN match_results.unmatched_positions |->
                _process_unmatched_position(match_results.unmatched_positions[i])]
        good == SelectSeq(all_positions, LAMBDA p : p.ok)
    IN [results |-> [i \in DOMAIN good |-> good[i].result],
        position_errors |-> Len(all_positions) - Len(good)]

\* _generate_statistics: the processing summary, counted over the results
_generate_statistics(results) ==
    [total_positions |-> Len(results),
     normal_positions |-> Len(SelectSeq(results, LAMBDA r : r.status = StatusNormal)),
     no_interview_positions |->
         Len(SelectSeq(results, LAMBDA r : r.status = StatusNoCandidates)),
     unmatched_positions |-> Len(SelectSeq(results, LAMBDA r : r.status = StatusUnmatched)),
     error_positions |-> Len(SelectSeq(results, LAMBDA r : r.status = StatusAnomaly))]

\* self._total_steps
TotalSteps == 7

\* _update_progress: the progress callback gets a ProcessingProgress for each
\* step begun, with its step number and the total number of steps
StepsUpTo(n) == [i \in 1..n |-> [step_number |-> i, total_steps |-> TotalSteps]]

\* lines 145-174: the ProcessingResult, with the number of positions left
\* out by step 5
ProcessingResult(position_data, interview_data, match_results, score_results) ==
    IF ~position_data.ok \/ ~interview_data.ok
    THEN [success |-> FALSE, results |-> <<>>, error |-> "no_valid_data",
          matcher |-> "none", position_errors |-> 0,
          progress |-> IF ~position_data.ok THEN StepsUpTo(2) ELSE StepsUpTo(3)]
    ELSE IF ~match_results.ok
    THEN [success |-> FALSE, results |-> <<>>, error |-> match_results.error,
          matcher |-> match_results.matcher, position_errors |-> 0,
          progress |-> StepsUpTo(4)]
    ELSE [success |-> TRUE, results |-> score_results.results, error |-> "",
          matcher |-> match_results.matcher,
          position_errors |-> score_results.position_errors,
          progress |-> StepsUpTo(TotalSteps)]

\* steps 4 and 5 on the data read by steps 2 and 3
MatchAndScore(position_data, interview_data, cm, position_file, interview_file) ==
    _calculate_min_scores(
        _match_position_data(position_data, interview_data, cm,
                             position_file, interview_file),
        interview_data)

\* process_files, steps 2 to 5 (the files pass validation, the report is
\* written and the result validation only adds warnings)
process_files(position_file, interview_file, cm) ==
    ProcessingResult(
        _read_position_file(position_file),
        _read_interview_file(interview_file),
        _match_position_data(_read_position_file(position_file).data,
                             _read_interview_file(interview_file).data,
                             cm, position_file, interview_file),
        MatchAndScore(_read_position_file(position_file).data,
                      _read_interview_file(interview_file).data,
                      cm, position_file, interview_file))

(***************************************************************************)
(* DataValidator: the four validators return a ValidationResult and keep   *)
(* it in the session list; errors and warnings are kept as their kinds.    *)
(***************************************************************************)

\* a field that holds None
PyNone == <<"None">>

\* a row that is no dict
NotADict == [not_a_dict |-> TRUE]

\* isinstance(row, dict)
IsDict(row) == "not_a_dict" \notin DOMAIN row

\* row.get(key, '').strip(): the trimmed text, or AttributeError for None
StripField(row, key) ==
    IF Get(row, key, <<>>) = PyNone THEN [ok |-> FALSE, value |-> <<>>]
    ELSE [ok |-> TRUE, value |-> Strip(Get(row, key, <<>>))]

ValidationResult(is_valid, errors, warnings, valid_count, invalid_count) ==
    [is_valid |-> is_valid, errors |-> errors, warnings |-> warnings,
     valid_count |-> valid_count, invalid_count |-> invalid_count]

\* what a validator call does: the result it returns, or the ValidationError
\* it raises, and whether the result was appended to _validation_results
Returned(result, appended) == [raised |-> FALSE, result |-> result, appended |-> appended]

Raised == [raised |-> TRUE, result |-> ValidationResult(FALSE, <<>>, <<>>, 0, 0),
           appended |-> FALSE]

\* lines 85-128: one position row; acc holds the names and codes seen and
\* the errors, warnings and counts so far
PositionRowChecked(position, acc) ==
    LET failed(a) == [a EXCEPT !.errors = Append(@, "exception"),
                               !.invalid_count = @ + 1]
        name == StripField(position, "position_name")
        code == StripField(position, "position_code")
        department == StripField(position, "department")
        afterName ==
            IF name.value \in acc.position_names
            THEN [acc EXCEPT !.warnings = Append(@, "duplicate_name")]
            ELSE [acc EXCEPT !.position_names = @ \cup {name.value}]
        afterCode ==
            IF code.value = <<>>
            THEN [afterName EXCEPT !.warnings = Append(@, "missing_code")]
            ELSE IF code.value \in afterName.position_codes
            THEN [afterName EXCEPT !.warnings = Append(@, "duplicate_code")]
            ELSE [afterName EXCEPT !.position_codes = @ \cup {code.value}]
        afterDepartment ==
            IF department.value = <<>>
            THEN [afterCode EXCEPT !.warnings = Append(@, "missing_department")]
            ELSE afterCode
    IN IF ~IsDict(position)
       THEN [acc EXCEPT !.errors = Append(@, "not_a_dict"), !.invalid_count = @ + 1]
       ELSE IF ~name.ok THEN failed(acc)
       ELSE IF name.value = <<>>
       THEN [acc EXCEPT !.errors = Append(@, "no_name"), !.invalid_count = @ + 1]
       ELSE IF ~code.ok THEN failed(afterName)
       ELSE IF ~department.ok THEN failed(afterCode)
       ELSE [afterDepartment EXCEPT !.valid_count = @ + 1]

RECURSIVE PositionRowsChecked(_, _, _)
PositionRowsChecked(position_data, i, acc) ==
    IF i > Len(position_data) THEN acc
    ELSE PositionRowsChecked(position_data, i + 1,
                             PositionRowChecked(position_data[i], acc))

\* validate_position_data_integrity: the result for empty data is returned
\* at line 77 without being appended
validate_position_data_integrity(position_data) ==
    LET acc == PositionRowsChecked(position_data, 1,
                   [position_names |-> {}, position_codes |-> {}, errors |-> <<>>,
                    warnings |-> <<>>, valid_count |-> 0, invalid_count |-> 0])
    IN IF position_data = <<>>
       THEN Returned(ValidationResult(FALSE, <<"empty">>, <<>>, 0, 0), FALSE)
       ELSE Returned(ValidationResult(acc.errors = <<>> /\ acc.valid_count > 0,
                                      acc.errors, acc.warnings,
                                      acc.valid_count, acc.invalid_count), TRUE)

\* a score that is float('nan'): float(score) is nan, and nan < 0 is False
NanScore == [type |-> "nan"]

\* lines 181-229: one candidate row; acc holds the (name, position) pairs
\* seen and the errors, warnings and counts so far
InterviewRowChecked(interview, acc) ==
    LET bad(a, kind) == [a EXCEPT !.errors = Append(@, kind), !.invalid_count = @ + 1]
        name == StripField(interview, "name")
        position_name == StripField(interview, "position_name")
        candidate_key == <<name.value, position_name.value>>
        afterKey ==
            IF candidate_key \in acc.candidate_keys
            THEN [acc EXCEPT !.warnings = Append(@, "duplicate_candidate")]
            ELSE [acc EXCEPT !.candidate_keys = @ \cup {candidate_key}]
        score == Get(interview, "score", NoScore)
    IN IF ~IsDict(interview) THEN bad(acc, "not_a_dict")
       ELSE IF ~name.ok THEN bad(acc, "exception")
       ELSE IF name.value = <<>> THEN bad(acc, "no_name")
       ELSE IF ~position_name.ok THEN bad(acc, "exception")
       ELSE IF position_name.value = <<>> THEN bad(acc, "no_position")
       ELSE IF score.type = "NoneType" THEN bad(afterKey, "no_score")
       ELSE IF score = NanScore THEN [afterKey EXCEPT !.valid_count = @ + 1]
       ELSE IF ~PyFloat(score).ok THEN bad(afterKey, "invalid_score")
       ELSE IF PyFloat(score).value < 0 THEN bad(afterKey, "negative_score")
       ELSE [afterKey EXCEPT !.valid_count = @ + 1]

RECURSIVE InterviewRowsChecked(_, _, _)
InterviewRowsChecked(interview_data, i, acc) ==
    IF i > Len(interview_data) THEN acc
    ELSE InterviewRowsChecked(interview_data, i + 1,
                              InterviewRowChecked(interview_data[i], acc))

\* validate_interview_data_integrity: the result for empty data is returned
\* at line 172 without being appended
validate_interview_data_integrity(interview_data) ==
    LET acc == InterviewRowsChecked(interview_data, 1,
                   [candidate_keys |-> {}, errors |-> <<>>, warnings |-> <<>>,
                    valid_count |-> 0, invalid_count |-> 0])
    IN IF interview_data = <<>>
       THEN Returned(ValidationResult(FALSE, <<"empty">>, <<>>, 0, 0), FALSE)
       ELSE Returned(ValidationResult(acc.errors = <<>> /\ acc.valid_count > 0,
                                      acc.errors, acc.warnings,
                                      acc.valid_count, acc.invalid_count), TRUE)

\* low_confidence_threshold = 0.7
LowConfidenceThreshold == 70

RequiredKeys == <<"mappings", "unmatched_positions", "unmatched_interviews", "statistics">>

\* validate_match_results: a result that lacks a required key is reported
\* and returned at line 281 without being appended; an unmatched position
\* that is no dict makes position.get raise (line 316)
validate_match_results(match_results) ==
    LET missing == SelectSeq(RequiredKeys, LAMBDA k : k \notin DOMAIN match_results)
        mappings == match_results.mappings
        low == SelectSeq(mappings, LAMBDA m : m.match_confidence < LowConfidenceThreshold)
        match_rate == Get(match_results.statistics, "match_rate", <<0, 1>>)
        warnings ==
            [i \in DOMAIN low |-> "low_confidence"]
            \o (IF 2 * match_rate[1] < match_rate[2] THEN <<"low_match_rate">>
                ELSE IF 5 * match_rate[1] < 4 * match_rate[2]
                THEN <<"medium_match_rate">> ELSE <<>>)
    IN IF missing # <<>>
       THEN Returned(ValidationResult(FALSE, [i \in DOMAIN missing |-> "missing_key"],
                                      <<>>, 0, 0), FALSE)
       ELSE IF \E i \in DOMAIN match_results.unmatched_positions :
                  ~IsDict(match_results.unmatched_positions[i])
       THEN Raised
       ELSE Returned(ValidationResult(TRUE, <<>>, warnings, Len(mappings),
                                      Len(match_results.unmatched_positions)
                                      + Len(match_results.unmatched_interviews)), TRUE)

\* the unmatched records validate_match_results adds (lines 303-332)
UnmatchedRecords(match_results) ==
    IF validate_match_results(match_results).appended
    THEN Len(match_results.unmatched_positions) + Len(match_results.unmatched_interviews)
    ELSE IF validate_match_results(match_results).raised
    THEN CHOOSE i \in DOMAIN match_results.unmatched_positions :
             /\ ~IsDict(match_results.unmatched_positions[i])
             /\ \A j \in 1..(i - 1) : IsDict(match_results.unmatched_positions[j])
    ELSE 0

\* the distinct trimmed names of lines 430-440; a row that is no dict or a
\* name that is None makes .get or .strip raise
NamesOf(data) ==
    [ok |-> \A i \in DOMAIN data :
               IsDict(data[i]) /\ StripField(data[i], "position_name").ok,
     names |-> {StripField(data[i], "position_name").value : i \in DOMAIN data} \ {<<>>}]

\* validate_data_consistency
validate_data_consistency(position_data, interview_data) ==
    LET position_names == NamesOf(position_data).names
        interview_positions == NamesOf(interview_data).names
        common_count == Cardinality(position_names \cap interview_positions)
        position_only == Cardinality(position_names \ interview_positions)
        interview_only == Cardinality(interview_positions \ position_names)
        largest == Max(Cardinality(position_names), Cardinality(interview_positions))
        warnings ==
            (IF common_count = 0 THEN <<>>
             ELSE IF 10 * common_count < 3 * largest THEN <<"low_consistency">>
             ELSE IF 10 * common_count < 7 * largest THEN <<"medium_consistency">>
             ELSE <<>>)
            \o (IF position_only > 0 THEN <<"position_only">> ELSE <<>>)
            \o (IF interview_only > 0 THEN <<"interview_only">> ELSE <<>>)
    IN IF ~NamesOf(position_data).ok \/ ~NamesOf(interview_data).ok
       THEN Raised
       ELSE Returned(ValidationResult(common_count > 0,
                                      IF common_count = 0 THEN <<"no_common">> ELSE <<>>,
                                      warnings, common_count,
                                      position_only + interview_only), TRUE)

\* DataValidator.__init__
DataValidator == [_validation_results |-> <<>>, _unmatched_records |-> 0]

\* the validator after a call that did this
Validated(v, did, unmatched) ==
    [_validation_results |->
         IF did.appended THEN Append(v._validation_results, did.result)
         ELSE v._validation_results,
     _unmatched_records |-> v._unmatched_records + unmatched]

\* clear_validation_results
clear_validation_results(v) == DataValidator

\* get_validation_summary
get_validation_summary(v) ==
    LET rs == v._validation_results
    IN [total_validations |-> Len(rs),
        passed_validations |-> Len(SelectSeq(rs, LAMBDA r : r.is_valid)),
        failed_validations |-> Len(SelectSeq(rs, LAMBDA r : ~r.is_valid)),
        total_errors |-> SumSeq([i \in DOMAIN rs |-> Len(rs[i].errors)]),
        total_warnings |-> SumSeq([i \in DOMAIN rs |-> Len(rs[i].warnings)]),
        total_valid_records |-> SumSeq([i \in DOMAIN rs |-> rs[i].valid_count]),
        total_invalid_records |-> SumSeq([i \in DOMAIN rs |-> rs[i].invalid_count])]

\* --- ProcessingEngine: the state a process_files run leaves behind ---

\* datetime.now()
Now == <<"now">>

\* ProcessingEngine.__init__ (lines 67-71); position_warnings is the number
\* of positions step 5 left out in the last run
ProcessingEngine ==
    [position_warnings |-> 0, _current_step |-> 0, _start_time |-> None,
     _processing_errors |-> <<>>, _processing_warnings |-> <<>>]

\* the validator calls of a run in order, each with what it did and the
\* unmatched records it added: the position check in step 2, the candidate
\* check in step 3, the consistency check before and the check of the match
\* result after the matching of step 4; a step that raises ends the run
RunValidations(position_data, interview_data, match_results, cm) ==
    LET validated ==
            [mappings |-> match_results.mappings,
             unmatched_positions |-> match_results.unmatched_positions,
             unmatched_interviews |->
                 IF MappingGiven(cm) THEN <<>>
                 ELSE ListOf(_extract_interview_positions(interview_data.data)),
             statistics |->
                 [match_rate |-> Ratio(Len(match_results.mappings),
                                       Len(match_results.mappings)
                                       + Len(match_results.unmatched_positions))]]
        call(did, unmatched) == [did |-> did, unmatched |-> unmatched]
    IN IF ~position_data.ok THEN <<>>
       ELSE <<call(validate_position_data_integrity(position_data.data), 0)>>
            \o (IF ~interview_data.ok THEN <<>>
                ELSE <<call(validate_interview_data_integrity(interview_data.data), 0),
                       call(validate_data_consistency(position_data.data,
                                                      interview_data.data), 0)>>
                     \o (IF ~match_results.ok THEN <<>>
                         ELSE <<call(validate_match_results(validated),
                                     UnmatchedRecords(validated))>>))

\* the validator after these calls
RECURSIVE ValidatedAll(_, _)
ValidatedAll(v, done) ==
    IF done = <<>> THEN v
    ELSE ValidatedAll(Validated(v, Head(done).did, Head(done).unmatched), Tail(done))

\* self._processing_warnings after a run: the warnings of the validator
\* calls, one more when the consistency check fails (line 623), and one for
\* each position step 5 left out (line 807); the warnings of step 7 are not
\* kept
RECURSIVE RunWarnings(_, _)
RunWarnings(done, position_errors) ==
    IF done = <<>> THEN [i \in 1..position_errors |-> "position_skipped"]
    ELSE Head(done).did.result.warnings
         \o (IF "no_common" \in Range(Head(done).did.result.errors)
             THEN <<"inconsistent">> ELSE <<>>)
         \o RunWarnings(Tail(done), position_errors)

\* the engine after process_files returned out: lines 92-94 set the start
\* time and clear both lists, _update_progress sets the step, and nothing
\* is appended to _processing_errors on the way
EngineAfterRun(e, out, done) ==
    [position_warnings |-> out.position_errors,
     _current_step |-> Len(out.progress),
     _start_time |-> Now,
     _processing_errors |-> <<>>,
     _processing_warnings |-> RunWarnings(done, out.position_errors)]

\* reset_processing_state, the warnings being kept
reset_processing_state_keeps_warnings(e) ==
    [position_warnings |-> e.position_warnings, _current_step |-> 0, _start_time |-> None,
     _processing_errors |-> <<>>, _processing_warnings |-> e._processing_warnings]

\* reset_processing_state (the engine's own fields)
reset_processing_state(e) ==
    [position_warnings |-> 0, _current_step |-> 0, _start_time |-> None,
     _processing_errors |-> <<>>, _processing_warnings |-> <<>>]

\* get_processing_status
get_processing_status(e) ==
    [current_step |-> e._current_step,
     total_steps |-> TotalSteps,
     is_processing |-> e._start_time # None,
     start_time |-> e._start_time,
     errors |-> e._processing_errors,
     warnings |-> e._processing_warnings]

(***************************************************************************)
(* The matchers as a state machine: the frames and the mapping are fixed   *)
(* by Init, the matchers are constructed on the mapping, and every action  *)
(* is one call of a public operation.                                      *)
(***************************************************************************)
SeqsUpTo(S, n) == UNION {[1..k -> S] : k \in 0..n}

Pair(p, i) == [pos_col |-> p, int_col |-> i]

\* the rows over the given columns, each cell drawn from its column's values
RowsOver(cols, cells) == {r \in [cols -> UNION {cells[c] : c \in cols}] :
                             \A c \in cols : r[c] \in cells[c]}

\* the frames over each of the column sets, with minRows..maxRows rows
Frames(colsets, cells, minRows, maxRows) ==
    UNION {{Frame(cols, rows) :
               rows \in {q \in SeqsUpTo(RowsOver(cols, cells), maxRows) : Len(q) >= minRows}} :
           cols \in colsets}

InitMatchers(pdfs, idfs, ms) ==
    /\ position_df \in pdfs
    /\ interview_df \in idfs
    /\ column_mappings \in ms
    /\ cfg = ConfigurableDataMatcher(column_mappings)
    /\ cfgOuts = <<>>
    /\ fast = FastDataMatcher(column_mappings)
    /\ fastOuts = <<>>
    /\ opt = OptimizedProcessingEngine
    /\ optOuts = <<>>
    /\ calls = <<>>

\* ConfigurableDataMatcher.match_data(position_df, interview_df)
ConfigurableMatchData ==
    /\ cfg.constructed
    /\ Len(cfgOuts) < MaxRuns
    /\ cfg' = [cfg EXCEPT !.match_results =
                  MatchDataResults(cfg.match_results, position_df, interview_df,
                                   column_mappings)]
    /\ cfgOuts' = Append(cfgOuts, MatchDataReturn(cfg.match_results, position_df,
                                                  interview_df, column_mappings))
    /\ UNCHANGED <<position_df, interview_df, column_mappings, fast, fastOuts,
                   opt, optOuts, calls>>
    /\ UNCHANGED engineVars

\* FastDataMatcher.match_data_fast(position_df, interview_df)
FastMatchDataFast ==
    /\ Len(fastOuts) < MaxRuns
    /\ fast' = [fast EXCEPT !.interview_indices =
                   IndicesForMatch(fast.interview_indices, interview_df,
                                   column_mappings)]
    /\ fastOuts' = Append(fastOuts, match_data_fast(fast.interview_indices,
                                        position_df, interview_df, column_mappings))
    /\ UNCHANGED <<position_df, interview_df, column_mappings, cfg, cfgOuts,
                   opt, optOuts, calls>>
    /\ UNCHANGED engineVars

\* OptimizedProcessingEngine.process_files_optimized on the two tables
OptProcessFiles ==
    /\ Len(optOuts) < MaxRuns
    /\ opt' = OptAfterProcess(opt, position_df, interview_df, column_mappings)
    /\ optOuts' = Append(optOuts, process_files_optimized(opt, position_df,
                                       interview_df, column_mappings))
    /\ UNCHANGED <<position_df, interview_df, column_mappings, cfg, cfgOuts,
                   fast, fastOuts, calls>>
    /\ UNCHANGED engineVars

NextMatchers == ConfigurableMatchData \/ FastMatchDataFast \/ OptProcessFiles

\* ProcessingEngine.process_files(position_file, interview_file), no mapping
ProcessFilesLegacy ==
    /\ Len(engineOut) < MaxRuns
    /\ LET out == process_files(engineIn.position_file, engineIn.interview_file,
                                [given |-> FALSE, pairs |-> <<>>])
           done == RunValidations(
                       _read_position_file(engineIn.position_file),
                       _read_interview_file(engineIn.interview_file),
                       _match_position_data(
                           _read_position_file(engineIn.position_file).data,
                           _read_interview_file(engineIn.interview_file).data,
                           [given |-> FALSE, pairs |-> <<>>],
                           engineIn.position_file, engineIn.interview_file),
                       [given |-> FALSE, pairs |-> <<>>])
       IN /\ engineOut' = Append(engineOut, out)
          /\ engine' = EngineAfterRun(engine, out, done)
          /\ validator' = ValidatedAll(validator, done)
    /\ UNCHANGED <<engineIn, validatorOuts>>
    /\ UNCHANGED legacyVars
    /\ UNCHANGED matcherVars

\* ProcessingEngine.process_files(position_file, interview_file, column_mappings)
ProcessFilesMapped ==
    /\ Len(engineOut) < MaxRuns
    /\ LET out == process_files(engineIn.position_file, engineIn.interview_file,
                                [given |-> TRUE, pairs |-> engineIn.column_mappings])
           done == RunValidations(
                       _read_position_file(engineIn.position_file),
                       _read_interview_file(engineIn.interview_file),
                       _match_position_data(
                           _read_position_file(engineIn.position_file).data,
                           _read_interview_file(engineIn.interview_file).data,
                           [given |-> TRUE, pairs |-> engineIn.column_mappings],
                           engineIn.position_file, engineIn.interview_file),
                       [given |-> TRUE, pairs |-> engineIn.column_mappings])
       IN /\ engineOut' = Append(engineOut, out)
          /\ engine' = EngineAfterRun(engine, out, done)
          /\ validator' = ValidatedAll(validator, done)
    /\ UNCHANGED <<engineIn, validatorOuts>>
    /\ UNCHANGED legacyVars
    /\ UNCHANGED matcherVars

NextEngine == ProcessFilesLegacy \/ ProcessFilesMapped

\* the engine's DataValidator as constructed
ValidatorIdle ==
    /\ validator = DataValidator
    /\ validatorOuts = <<>>

\* DataMatcher.__init__ with the default threshold
DataMatcher(fuzzy_threshold) ==
    [fuzzy_threshold |-> fuzzy_threshold, _position_mappings |-> <<>>,
     _unmatched_positions |-> <<>>]

\* the engine's DataMatcher as constructed, not called directly
LegacyIdle ==
    /\ dm = DataMatcher(FuzzyThreshold)
    /\ dmIn = [position |-> [position_name |-> <<>>, position_code |-> <<>>],
               interview_positions |-> <<>>]
    /\ dmOut = <<>>

\* no engine call is made in the specifications of the matchers
EngineIdle ==
    /\ engine = ProcessingEngine
    /\ ValidatorIdle
    /\ engineIn = [position_file |-> Frame({}, <<>>),
                   interview_file |-> Frame({}, <<>>),
                   column_mappings |-> <<>>]
    /\ engineOut = <<>>
    /\ LegacyIdle

\* --- Spec: value-rich tables, well-formed mapping, every mapped column present ---
PosCells == [P1 |-> {NaN, <<"a">>, <<"a", " ">>, <<"n", "a", "n">>},
             P2 |-> {<<>>, <<"b">>}]

IntCells == [I1 |-> {NaN, <<"a">>, <<"a", " ">>},
             I2 |-> {<<"b">>, <<"c">>}]

IntRows == {r \in RowsOver({"I1", "I2"}, IntCells) : r.I1 = <<"a">> \/ r.I2 = <<"b">>}

WellFormedMappings == {<<Pair("P1", "I1")>>, <<Pair("P1", "I1"), Pair("P2", "I2")>>}

Init ==
    /\ InitMatchers(
         Frames({{"P1", "P2"}}, PosCells, 1, MaxPositions),
         {Frame({"I1", "I2"}, rows) : rows \in SeqsUpTo(IntRows, MaxCandidates)},
         WellFormedMappings)
    /\ EngineIdle

Spec == Init /\ [][NextMatchers]_vars

\* --- SpecSchema: empty and malformed mappings, mapped columns that a table lacks ---
SchemaMappings ==
    {<<>>, <<Pair("P1", "I1")>>, <<Pair("P1", "I1"), Pair("P2", "I2")>>,
     <<Pair("P1", "")>>, <<Pair("", "I1")>>, <<Pair("P1", "I1"), Pair("P2", "")>>}

SchemaPosCells == [P1 |-> {<<"a">>}, P2 |-> {<<"b">>, <<>>}]

SchemaIntCells == [I1 |-> {<<"a">>, <<"c">>}, I2 |-> {<<"b">>, <<"c">>}]

InitSchema ==
    /\ InitMatchers(
         Frames({{"P1", "P2"}, {"P1"}}, SchemaPosCells, 1, MaxPositions),
         Frames({{"I1", "I2"}, {"I1"}, {"I2"}, {}}, SchemaIntCells, 0, MaxCandidates),
         SchemaMappings)
    /\ EngineIdle

SpecSchema == InitSchema /\ [][NextMatchers]_vars

\* --- SpecBatch: position tables of every size up to MaxBatchPositions ---
RECURSIVE DecimalDigits(_)
DecimalDigits(n) ==
    LET d == <<"0", "1", "2", "3", "4", "5", "6", "7", "8", "9">>[(n % 10) + 1]
    IN IF n < 10 THEN <<d>> ELSE Append(DecimalDigits(n \div 10), d)

BatchPool == <<[P1 |-> <<"a">>, P2 |-> <<"b">>],
               [P1 |-> <<"a", " ">>, P2 |-> <<>>],
               [P1 |-> NaN, P2 |-> <<>>]>>

\* n position rows, each with its own serial number in the unmapped column no
BatchRows(n) ==
    [i \in 1..n |-> [P1 |-> BatchPool[((i - 1) % 3) + 1].P1,
                     P2 |-> BatchPool[((i - 1) % 3) + 1].P2,
                     no |-> DecimalDigits(i)]]

BatchInterview ==
    Frame({"I1", "I2"}, <<[I1 |-> <<"a">>, I2 |-> <<"b">>],
                          [I1 |-> <<"a">>, I2 |-> <<"c">>]>>)

InitBatch ==
    /\ InitMatchers({Frame({"P1", "P2", "no"}, BatchRows(n)) : n \in 0..MaxBatchPositions},
                    {BatchInterview}, WellFormedMappings)
    /\ EngineIdle

\* only the two batched operations are called
NextBatch == FastMatchDataFast \/ OptProcessFiles

SpecBatch == InitBatch /\ [][NextBatch]_vars

\* --- SpecSession: one FastDataMatcher and one OptimizedProcessingEngine kept
\* --- over several calls, each call with a candidate table of its own ---
SessionIntCells == [I1 |-> {<<"a">>, <<"c">>}, I2 |-> {<<"b">>}]

SessionCandidates ==
    Frames({{"I1", "I2"}, {"I1"}}, SessionIntCells, 1, MaxSessionCandidates)

NoReturn == <<>>

Call(op, candidates, indices, out) ==
    [op |-> op, candidates |-> candidates, indices |-> indices, out |-> out]

\* FastDataMatcher.build_indices(candidates)
SessionBuildIndices ==
    /\ Len(calls) < MaxCalls
    /\ \E c \in SessionCandidates :
          /\ fast' = [fast EXCEPT !.interview_indices =
                         build_indices(fast.interview_indices, c, column_mappings, 1)]
          /\ calls' = Append(calls, Call("build_indices", c,
                                         fast'.interview_indices, NoReturn))
    /\ UNCHANGED <<position_df, interview_df, column_mappings, cfg, cfgOuts,
                   fastOuts, opt, optOuts>>
    /\ UNCHANGED engineVars

\* FastDataMatcher.clear_indices()
SessionClearIndices ==
    /\ Len(calls) < MaxCalls
    /\ fast' = clear_indices(fast)
    /\ calls' = Append(calls, Call("clear_indices", Frame({}, <<>>),
                                   fast'.interview_indices, NoReturn))
    /\ UNCHANGED <<position_df, interview_df, column_mappings, cfg, cfgOuts,
                   fastOuts, opt, optOuts>>
    /\ UNCHANGED engineVars

\* FastDataMatcher.match_data_fast(position_df, candidates)
SessionMatchDataFast ==
    /\ Len(calls) < MaxCalls
    /\ \E c \in SessionCandidates :
          /\ fast' = [fast EXCEPT !.interview_indices =
                         IndicesForMatch(fast.interview_indices, c, column_mappings)]
          /\ calls' = Append(calls, Call("match_data_fast", c,
                                         fast'.interview_indices,
                                         match_data_fast(fast.interview_indices,
                                                         position_df, c,
                                                         column_mappings)))
    /\ UNCHANGED <<position_df, interview_df, column_mappings, cfg, cfgOuts,
                   fastOuts, opt, optOuts>>
    /\ UNCHANGED engineVars

\* OptimizedProcessingEngine.process_files_optimized(position file, candidates file)
SessionProcessFilesOptimized ==
    /\ Len(calls) < MaxCalls
    /\ \E c \in SessionCandidates :
          /\ opt' = OptAfterProcess(opt, position_df, c, column_mappings)
          /\ calls' = Append(calls, Call("process_files_optimized", c,
                                         opt'._interview_index.index,
                                         process_files_optimized(opt, position_df, c,
                                                                 column_mappings)))
    /\ UNCHANGED <<position_df, interview_df, column_mappings, cfg, cfgOuts,
                   fast, fastOuts, optOuts>>
    /\ UNCHANGED engineVars

\* OptimizedProcessingEngine.clear_cache()
SessionClearCache ==
    /\ Len(calls) < MaxCalls
    /\ opt' = clear_cache(opt)
    /\ calls' = Append(calls, Call("clear_cache", Frame({}, <<>>),
                                   opt'._interview_index.index, NoReturn))
    /\ UNCHANGED <<position_df, interview_df, column_mappings, cfg, cfgOuts,
                   fast, fastOuts, optOuts>>
    /\ UNCHANGED engineVars

NextSession ==
    \/ SessionBuildIndices
    \/ SessionClearIndices
    \/ SessionMatchDataFast
    \/ SessionProcessFilesOptimized
    \/ SessionClearCache

SessionPosCells == [P1 |-> {<<"a">>, <<"c">>}, P2 |-> {<<"b">>}]

InitSession ==
    /\ InitMatchers(Frames({{"P1", "P2"}}, SessionPosCells, 1, MaxPositions),
                    {Frame({}, <<>>)}, WellFormedMappings)
    /\ EngineIdle

SpecSession == InitSession /\ [][NextSession]_vars

\* --- SpecIndex: build_indices on candidate tables with missing, blank and
\* --- padded values ---
IndexIntCells == [I1 |-> {NaN, <<>>, <<" ">>, <<"a">>, <<"a", " ">>},
                  I2 |-> {<<"b">>}]

\* FastDataMatcher.build_indices(interview_df)
IndexBuildIndices ==
    /\ Len(calls) < MaxCalls
    /\ fast' = [fast EXCEPT !.interview_indices =
                   build_indices(fast.interview_indices, interview_df,
                                 column_mappings, 1)]
    /\ calls' = Append(calls, Call("build_indices", interview_df,
                                   fast'.interview_indices, NoReturn))
    /\ UNCHANGED <<position_df, interview_df, column_mappings, cfg, cfgOuts,
                   fastOuts, opt, optOuts>>
    /\ UNCHANGED engineVars

NextIndex == IndexBuildIndices \/ SessionClearIndices \/ FastMatchDataFast

InitIndex ==
    /\ InitMatchers(Frames({{"P1", "P2"}}, SessionPosCells, 1, 1),
                    Frames({{"I1", "I2"}, {"I1"}}, IndexIntCells, 0, MaxIndexCandidates),
                    WellFormedMappings)
    /\ EngineIdle

SpecIndex == InitIndex /\ [][NextIndex]_vars

\* --- SpecLegacy: DataMatcher._find_best_match on one position and a list of
\* --- interview position names ---
LegacyNames ==
    {<<"x", "y">>, <<"X", "y">>, <<"x", " ", "y">>, <<"x", "y", "z">>,
     <<"x", "y", "shi1">>, <<"ruan", "jian4", "x">>, <<"ruan", "jian4", "y">>,
     <<"ruan", "jian4", "x", "shi1">>, <<"z", "1">>}

\* lists of distinct names, as _extract_interview_positions gives them
DistinctLists(S, n) ==
    {q \in SeqsUpTo(S, n) : \A i, j \in DOMAIN q : i # j => q[i] # q[j]}

LegacyThresholds == {0, 70, FuzzyThreshold}

InitLegacy ==
    /\ InitMatchers({Frame({}, <<>>)}, {Frame({}, <<>>)}, {<<>>})
    /\ engine = ProcessingEngine
    /\ ValidatorIdle
    /\ engineIn = [position_file |-> Frame({}, <<>>),
                   interview_file |-> Frame({}, <<>>),
                   column_mappings |-> <<>>]
    /\ engineOut = <<>>
    /\ dm \in {DataMatcher(t) : t \in LegacyThresholds}
    /\ dmIn \in [position : [position_name : LegacyNames,
                              position_code : {<<>>, <<"1">>}],
                  interview_positions : DistinctLists(LegacyNames, MaxLegacyCandidates)]
    /\ dmOut = <<>>

\* DataMatcher._find_best_match(position, interview_positions, interview_data)
FindBestMatch ==
    /\ Len(dmOut) < MaxLegacyRuns
    /\ dmOut' = Append(dmOut, _find_best_match(dmIn.position, dmIn.interview_positions,
                                               dm.fuzzy_threshold))
    /\ UNCHANGED <<dm, dmIn, engine, engineIn, engineOut>>
    /\ UNCHANGED validatorVars
    /\ UNCHANGED matcherVars

NextLegacy == FindBestMatch

SpecLegacy == InitLegacy /\ [][NextLegacy]_vars

\* --- SpecEngine: process_files on a position sheet and an interview sheet ---
EnginePosRows ==
    {[c \in {ColPositionName, ColPositionCode, ColRecruitCount} |->
         IF c = ColPositionName THEN nc[1]
         ELSE IF c = ColPositionCode THEN nc[2] ELSE rc] :
     nc \in {<<(<<"x">>), (<<"1">>)>>, <<(<<"z">>), (<<"3">>)>>},
     rc \in {NaN, <<"3">>}}

EngineIntRows ==
    {[c \in {ColName, ColPositionName, ColPositionCode, ColScore} |->
         IF c = ColName THEN <<"y">>
         ELSE IF c = ColPositionName THEN nc[1]
         ELSE IF c = ColPositionCode THEN nc[2] ELSE sc] :
     nc \in {<<(<<"x">>), (<<"1">>)>>, <<(<<"y">>), (<<"2">>)>>},
     sc \in {<<"8", "5">>, <<"6", "0">>, <<"a">>}}

EngineMappings ==
    {<<>>, <<Pair(ColPositionCode, ColPositionCode)>>, <<Pair("", ColPositionCode)>>,
     <<Pair(ColPositionCode, ColPositionCode), Pair(ColPositionName, ColPositionName)>>}

InitEngine ==
    /\ InitMatchers({Frame({}, <<>>)}, {Frame({}, <<>>)}, {<<>>})
    /\ engine = ProcessingEngine
    /\ ValidatorIdle
    /\ \E prow \in SeqsUpTo(EnginePosRows, MaxEnginePositions) \ {<<>>},
          irow \in SeqsUpTo(EngineIntRows, MaxEngineCandidates) \ {<<>>},
          m \in EngineMappings :
         engineIn = [position_file |->
                         Frame({ColPositionName, ColPositionCode, ColRecruitCount}, prow),
                     interview_file |->
                         Frame({ColName, ColPositionName, ColPositionCode, ColScore}, irow),
                     column_mappings |-> m]
    /\ engineOut = <<>>
    /\ LegacyIdle

SpecEngine == InitEngine /\ [][NextEngine]_vars

\* --- SpecReset: runs of process_files and reset_processing_state ---

\* a position sheet and an interview sheet of one row each, and a mapping
InitReset ==
    /\ InitMatchers({Frame({}, <<>>)}, {Frame({}, <<>>)}, {<<>>})
    /\ engine = ProcessingEngine
    /\ ValidatorIdle
    /\ \E prow \in EnginePosRows, irow \in EngineIntRows, m \in EngineMappings :
         engineIn = [position_file |->
                         Frame({ColPositionName, ColPositionCode, ColRecruitCount},
                               <<prow>>),
                     interview_file |->
                         Frame({ColName, ColPositionName, ColPositionCode, ColScore},
                               <<irow>>),
                     column_mappings |-> m]
    /\ engineOut = <<>>
    /\ LegacyIdle

\* ProcessingEngine.reset_processing_state()
ResetProcessingState ==
    /\ engine' = reset_processing_state(engine)
    /\ validator' = clear_validation_results(validator)
    /\ UNCHANGED <<engineIn, engineOut, validatorOuts>>
    /\ UNCHANGED legacyVars
    /\ UNCHANGED matcherVars

NextReset == ProcessFilesLegacy \/ ProcessFilesMapped \/ ResetProcessingState

SpecReset == InitReset /\ [][NextReset]_vars

\* --- SpecMapped: process_files with a mapping, candidates that share a
\* position's name or its code ---
MaxMappedCandidates == 2

MappedPosRows ==
    {[c \in {ColPositionName, ColPositionCode, ColRecruitCount} |->
         IF c = ColPositionName THEN nc[1]
         ELSE IF c = ColPositionCode THEN nc[2] ELSE <<"3">>] :
     nc \in {<<(<<"x">>), (<<"1">>)>>, <<(<<"z">>), (<<"3">>)>>}}

MappedIntRows ==
    {[c \in {ColName, ColPositionName, ColPositionCode, ColScore} |->
         IF c = ColName THEN <<"y">>
         ELSE IF c = ColPositionName THEN ncs[1]
         ELSE IF c = ColPositionCode THEN ncs[2] ELSE ncs[3]] :
     ncs \in {<<(<<"x">>), (<<"1">>), (<<"8", "5">>)>>,
              <<(<<"x">>), (<<"2">>), (<<"6", "0">>)>>,
              <<(<<"y">>), (<<"1">>), (<<"6", "0">>)>>}}

MappedMappings ==
    {<<Pair(ColPositionCode, ColPositionCode)>>,
     <<Pair(ColPositionCode, ColPositionCode), Pair(ColPositionName, ColPositionName)>>}

InitMapped ==
    /\ InitMatchers({Frame({}, <<>>)}, {Frame({}, <<>>)}, {<<>>})
    /\ engine = ProcessingEngine
    /\ ValidatorIdle
    /\ \E prow \in MappedPosRows,
          irow \in SeqsUpTo(MappedIntRows, MaxMappedCandidates) \ {<<>>},
          m \in MappedMappings :
         engineIn = [position_file |->
                         Frame({ColPositionName, ColPositionCode, ColRecruitCount},
                               <<prow>>),
                     interview_file |->
                         Frame({ColName, ColPositionName, ColPositionCode, ColScore}, irow),
                     column_mappings |-> m]
    /\ engineOut = <<>>
    /\ LegacyIdle

NextMapped == ProcessFilesMapped

SpecMapped == InitMapped /\ [][NextMapped]_vars

\* --- SpecPasses: several match passes of one matcher, each on its own data ---
MaxPasses == 2

\* position tables and interview tables of one mapped column
PassPositionFrames == Frames({{"P1"}}, [P1 |-> {<<"a">>, <<"b">>}], 1, 1)

PassInterviewFrames == Frames({{"I1"}}, [I1 |-> {<<"a">>, <<"b">>}], 0, 1)

\* legacy position dicts and candidate dicts
PassPositions ==
    LET position(n, c) == [position_code |-> c, position_name |-> n,
                           department |-> <<"s">>, sheet_name |-> <<"s">>]
    IN {<<position(<<"x">>, <<"1">>)>>, <<position(<<"z">>, <<"3">>)>>,
        <<position(<<"z">>, <<"3">>), position(<<"x">>, <<"1">>)>>}

PassCandidates ==
    {<<>>, <<[name |-> <<"y">>, position_name |-> <<"x">>, score |-> FloatScore(85)]>>,
     <<[name |-> <<"y">>, position_name |-> <<"y">>, score |-> FloatScore(85)]>>}

\* match_positions: the instance's lists after the call. Lines 78-80 clear
\* them before anything else; a position without a match is appended to
\* _unmatched_positions, and the first position with one ends the call
\* (see match_positions), so that _position_mappings stays empty
RECURSIVE UnmatchedBefore(_, _)
UnmatchedBefore(position_data, interview_positions) ==
    IF position_data = <<>> THEN <<>>
    ELSE IF _find_best_match(Head(position_data), interview_positions,
                             FuzzyThreshold).matched
    THEN <<>>
    ELSE <<Head(position_data)>>
         \o UnmatchedBefore(Tail(position_data), interview_positions)

DataMatcherAfter(matcher, position_data, interview_data) ==
    [matcher EXCEPT
        !._position_mappings = <<>>,
        !._unmatched_positions =
            IF position_data = <<>> \/ interview_data = <<>> THEN <<>>
            ELSE UnmatchedBefore(position_data,
                                 ListOf(_extract_interview_positions(interview_data)))]

\* line 539: the 'match_results' of a returned dict is the matcher's own
\* list, so what the caller reads from it is what the list holds now
ReturnedMatchResults(matcher, returned) == matcher.match_results

\* lines 405-406 of data_matcher.py: 'mappings' and 'unmatched_positions'
\* of a returned dict are the matcher's own lists
ReturnedMappings(matcher, returned) == matcher._position_mappings

ReturnedUnmatchedPositions(matcher, returned) == matcher._unmatched_positions

InitPasses ==
    /\ InitMatchers({Frame({"P1"}, <<>>)}, {Frame({"I1"}, <<>>)}, {<<Pair("P1", "I1")>>})
    /\ EngineIdle

\* ConfigurableDataMatcher.match_data(position_df, interview_df) on the
\* tables the caller passes this time
MatchDataPass ==
    /\ Len(cfgOuts) < MaxPasses
    /\ \E pdf \in PassPositionFrames, idf \in PassInterviewFrames :
         /\ position_df' = pdf
         /\ interview_df' = idf
         /\ cfg' = [cfg EXCEPT !.match_results =
                       MatchDataResults(cfg.match_results, pdf, idf, column_mappings)]
         /\ cfgOuts' = Append(cfgOuts, MatchDataReturn(cfg.match_results, pdf, idf,
                                                       column_mappings))
    /\ UNCHANGED <<column_mappings, fast, fastOuts, opt, optOuts, calls>>
    /\ UNCHANGED engineVars

\* DataMatcher.match_positions(position_data, interview_data) on the data
\* the caller passes this time
MatchPositionsPass ==
    /\ Len(dmOut) < MaxPasses
    /\ \E position_data \in PassPositions, interview_data \in PassCandidates :
         /\ dmIn' = [position_data |-> position_data, interview_data |-> interview_data]
         /\ dm' = DataMatcherAfter(dm, position_data, interview_data)
         /\ dmOut' = Append(dmOut, match_positions(position_data, interview_data))
    /\ UNCHANGED <<engine, engineIn, engineOut>>
    /\ UNCHANGED validatorVars
    /\ UNCHANGED matcherVars

NextPasses == MatchDataPass \/ MatchPositionsPass

SpecPasses == InitPasses /\ [][NextPasses]_vars


\* --- SpecScore: _calculate_min_scores on a match result and candidates ---
MaxScoreCandidates == 2

\* the candidate dicts: a position name and a score of any kind
ScoreCandidates ==
    {[name |-> <<"y">>, position_name |-> pn, score |-> sc] :
     pn \in {<<"x">>, <<"y">>},
     sc \in {NoScore, FloatScore(85), FloatScore(60), StrScore(<<"6", "0">>),
             StrScore(<<"a">>)}}

\* the PositionMapping objects of a match result
ScoreMappings ==
    {[position_code |-> <<"1">>, position_name |-> <<"x">>, recruit_count |-> 3,
      interview_position |-> ip, match_confidence |-> ScoreExact,
      candidate_count |-> 1] : ip \in {<<"x">>, <<"y">>}}

\* the position rows of a match result's unmatched positions
ScoreUnmatched ==
    {[c \in {ColPositionName, ColPositionCode, ColRecruitCount} |->
         IF c = ColPositionName THEN <<"z">>
         ELSE IF c = ColPositionCode THEN <<"3">> ELSE <<"3">>]}

InitScore ==
    /\ InitMatchers({Frame({}, <<>>)}, {Frame({}, <<>>)}, {<<>>})
    /\ engine = ProcessingEngine
    /\ ValidatorIdle
    /\ \E ms \in SeqsUpTo(ScoreMappings, 1), us \in SeqsUpTo(ScoreUnmatched, 1),
          cs \in SeqsUpTo(ScoreCandidates, MaxScoreCandidates) :
         engineIn = [match_results |-> [mappings |-> ms, unmatched_positions |-> us],
                     interview_data |-> cs]
    /\ engineOut = <<>>
    /\ LegacyIdle

\* ProcessingEngine._calculate_min_scores(match_results, interview_data)
CalculateMinScores ==
    /\ Len(engineOut) < MaxRuns
    /\ LET out == _calculate_min_scores(engineIn.match_results, engineIn.interview_data)
       IN /\ engineOut' = Append(engineOut, out)
          /\ engine' = [engine EXCEPT !.position_warnings = out.position_errors]
    /\ UNCHANGED engineIn
    /\ UNCHANGED legacyVars
    /\ UNCHANGED validatorVars
    /\ UNCHANGED matcherVars

NextScore == CalculateMinScores

SpecScore == InitScore /\ [][NextScore]_vars

\* --- SpecStats: the statistics and the export rows of a list of results ---
MaxStatResults == 3

\* FastDataMatcher.get_match_statistics(match_results)
get_match_statistics(match_results) ==
    LET matchedOnes == SelectSeq(match_results, LAMBDA r : r.matched)
        candidate_counts == [i \in DOMAIN matchedOnes |-> Len(matchedOnes[i].interview_rows)]
        total_candidates == SumSeq(candidate_counts)
    IN [total_positions |-> Len(match_results),
        matched_positions |-> Len(matchedOnes),
        unmatched_positions |-> Len(match_results) - Len(matchedOnes),
        match_rate |-> Ratio(Len(matchedOnes), Len(match_results)),
        total_candidates |-> total_candidates,
        avg_candidates_per_position |-> Ratio(total_candidates, Len(matchedOnes)),
        max_candidates_per_position |->
            IF candidate_counts = <<>> THEN 0
            ELSE candidate_counts[CHOOSE i \in DOMAIN candidate_counts :
                     \A j \in DOMAIN candidate_counts :
                         candidate_counts[i] >= candidate_counts[j]],
        min_candidates_per_position |->
            IF candidate_counts = <<>> THEN 0
            ELSE candidate_counts[CHOOSE i \in DOMAIN candidate_counts :
                     \A j \in DOMAIN candidate_counts :
                         candidate_counts[i] <= candidate_counts[j]]]

\* DataMatcher._generate_match_result: the 'statistics' of the three lists
_generate_match_result(position_mappings, unmatched_positions, unmatched_interviews) ==
    [total_positions |-> Len(position_mappings) + Len(unmatched_positions),
     matched_positions |-> Len(position_mappings),
     unmatched_positions |-> Len(unmatched_positions),
     unmatched_interviews |-> Len(unmatched_interviews),
     match_rate |-> Ratio(Len(position_mappings),
                          Len(position_mappings) + Len(unmatched_positions))]

ExportMatched == "yi_pipei"                \* '已匹配'
ExportUnmatched == "wei_pipei"             \* '未匹配'

\* lines 557-566: the lowest of the scores that convert, 0.0 without any; a
\* row without a score column counts as 0
ExportMinScore(interview_rows) ==
    LET scores == ValidScores([i \in DOMAIN interview_rows |->
                      [score |-> IF ColScore \in DOMAIN interview_rows[i]
                                 THEN StrScore(interview_rows[i][ColScore])
                                 ELSE FloatScore(0)]])
    IN IF scores = <<>> THEN 0
       ELSE scores[CHOOSE i \in DOMAIN scores : \A j \in DOMAIN scores : scores[i] <= scores[j]]

\* lines 568-577 and 583-592: the export row of one result
ExportRow(result) ==
    [gangwei_mingcheng |-> Get(result.position_row, ColPositionName,
                               Get(result.position_row, ColPositionNameAlt, <<>>)),
     gangwei_daima |-> Get(result.position_row, ColPositionCode,
                           Get(result.position_row, ColPositionCodeAlt, <<>>)),
     zuidi_fenshu |-> IF result.matched THEN ExportMinScore(result.interview_rows) ELSE 0,
     mianshi_renshu |-> IF result.matched THEN Len(result.interview_rows) ELSE 0,
     pipei_fenshu |-> IF result.matched THEN result.match_score ELSE ScoreNone,
     pipei_zhuangtai |-> IF result.matched THEN ExportMatched ELSE ExportUnmatched]

\* the rows of the matched results only
get_matched_data_for_export_matched_only(match_results) ==
    LET matchedOnes == SelectSeq(match_results, LAMBDA r : r.matched)
    IN [i \in DOMAIN matchedOnes |-> ExportRow(matchedOnes[i])]

\* ConfigurableDataMatcher.get_matched_data_for_export: a row for every
\* result, matched or not, in the order of the results
get_matched_data_for_export(match_results) ==
    [i \in DOMAIN match_results |-> ExportRow(match_results[i])]

\* a match result with these candidate rows and this score
StatResult(rows, match_score) ==
    [position_row |-> [zhaokao_zhiwei |-> <<"x">>, zhiwei_daima |-> <<"1">>],
     interview_rows |-> rows, match_score |-> match_score,
     match_details |-> NoDetails, matched |-> rows # <<>>]

\* match results as the dataclass admits them: an unmatched one and matched
\* ones with one or two candidates and a score of each bucket (match_data
\* itself only gives the scores ScoreExact and ScoreNone)
StatResults ==
    {StatResult(<<>>, ScoreNone),
     StatResult(<<[fenshu |-> <<"6", "0">>]>>, ScoreExact),
     StatResult(<<[fenshu |-> <<"8", "5">>], [fenshu |-> <<"a">>]>>, HighConfidence),
     StatResult(<<[fenshu |-> <<"a">>]>>, MediumConfidence),
     StatResult(<<[fenshu |-> <<"8", "5">>], [fenshu |-> <<"6", "0">>]>>, 50)}

\* a call of the statistics or of the export, with what it returned
StatCall(op, statistics, rows) == [op |-> op, statistics |-> statistics, rows |-> rows]

InitStats ==
    /\ position_df = Frame({}, <<>>)
    /\ interview_df = Frame({}, <<>>)
    /\ column_mappings = <<Pair(ColPositionCode, ColPositionCode)>>
    /\ \E rs \in SeqsUpTo(StatResults, MaxStatResults) :
          cfg = [ConfigurableDataMatcher(column_mappings) EXCEPT !.match_results = rs]
    /\ cfgOuts = <<>>
    /\ fast = FastDataMatcher(column_mappings)
    /\ fastOuts = <<>>
    /\ opt = OptimizedProcessingEngine
    /\ optOuts = <<>>
    /\ calls = <<>>
    /\ EngineIdle

\* ConfigurableDataMatcher._generate_match_statistics()
GenerateMatchStatistics ==
    /\ Len(cfgOuts) < MaxRuns
    /\ cfgOuts' = Append(cfgOuts, StatCall("_generate_match_statistics",
                              _generate_match_statistics(cfg.match_results), <<>>))
    /\ UNCHANGED <<position_df, interview_df, column_mappings, cfg, fast, fastOuts,
                   opt, optOuts, calls>>
    /\ UNCHANGED engineVars

\* ConfigurableDataMatcher.get_matched_data_for_export()
GetMatchedDataForExport ==
    /\ Len(cfgOuts) < MaxRuns
    /\ cfgOuts' = Append(cfgOuts, StatCall("get_matched_data_for_export", <<>>,
                              get_matched_data_for_export(cfg.match_results)))
    /\ UNCHANGED <<position_df, interview_df, column_mappings, cfg, fast, fastOuts,
                   opt, optOuts, calls>>
    /\ UNCHANGED engineVars

\* FastDataMatcher.get_match_statistics(match_results) on the same results
FastGetMatchStatistics ==
    /\ fastOuts = <<>>
    /\ fastOuts' = Append(fastOuts, StatCall("get_match_statistics",
                               get_match_statistics(cfg.match_results), <<>>))
    /\ UNCHANGED <<position_df, interview_df, column_mappings, cfg, cfgOuts,
                   fast, opt, optOuts, calls>>
    /\ UNCHANGED engineVars

\* DataMatcher._generate_match_result() at the end of match_positions, which
\* gets there with unmatched positions only
LegacyGenerateMatchResult ==
    /\ dmOut = <<>>
    /\ \E n \in 0..MaxStatResults :
          dmOut' = Append(dmOut, [unmatched_positions |-> n,
                                  statistics |-> _generate_match_result(
                                      <<>>, [i \in 1..n |-> dmIn.position], <<>>)])
    /\ UNCHANGED <<dm, dmIn, engine, engineIn, engineOut>>
    /\ UNCHANGED validatorVars
    /\ UNCHANGED matcherVars

NextStats ==
    \/ GenerateMatchStatistics
    \/ GetMatchedDataForExport
    \/ FastGetMatchStatistics
    \/ LegacyGenerateMatchResult

SpecStats == InitStats /\ [][NextStats]_vars

(***************************************************************************)
(* The validator as a state machine: a caller holds position rows,         *)
(* candidate rows and a match result, and calls the validators and         *)
(* clear_validation_results in any order.                                  *)
(***************************************************************************)
MaxValidatorCalls == 3
MaxValidatorRows == 2

\* position rows: complete, without code and department, blank name, a code
\* seen before, fields that hold None, and a row that is no dict
PositionRows ==
    {NotADict,
     [position_name |-> <<"x">>, position_code |-> <<"1">>, department |-> <<"d">>],
     [position_name |-> <<"x">>],
     [position_name |-> <<" ">>, position_code |-> <<"2">>, department |-> <<"d">>],
     [position_name |-> <<"y">>, position_code |-> <<"1">>, department |-> <<>>],
     [position_name |-> <<"y">>, position_code |-> PyNone, department |-> <<"d">>],
     [position_name |-> <<"y">>, position_code |-> <<"2">>, department |-> PyNone],
     [position_name |-> PyNone, position_code |-> <<"2">>, department |-> <<"d">>]}

\* candidate rows: scores that are numbers, texts, negative, None and NaN,
\* rows without name or position, and a row that is no dict
InterviewRows ==
    {NotADict,
     [name |-> <<"a">>, position_name |-> <<"x">>, score |-> FloatScore(85)],
     [name |-> <<"a">>, position_name |-> <<"x ">>, score |-> StrScore(<<"6", "0">>)],
     [name |-> <<"b">>, position_name |-> <<"y">>, score |-> NoScore],
     [name |-> <<"b">>, position_name |-> <<"y">>],
     [name |-> <<"b">>, position_name |-> <<"y">>, score |-> StrScore(<<"a">>)],
     [name |-> <<"b">>, position_name |-> <<"y">>, score |-> FloatScore(0 - 1)],
     [name |-> <<"b">>, position_name |-> <<"y">>, score |-> NanScore],
     [name |-> <<" ">>, position_name |-> <<"y">>, score |-> FloatScore(85)],
     [name |-> <<"a">>, score |-> FloatScore(85)],
     [name |-> <<"a">>, position_name |-> PyNone, score |-> FloatScore(85)]}

\* match results: complete ones, one without its statistics and unmatched
\* interviews, and ones whose unmatched positions lack a name or are no dict
ValidatorMatchResults ==
    LET mapping(c) == [position_name |-> <<"x">>, interview_position |-> <<"x">>,
                       match_confidence |-> c]
    IN {[mappings |-> <<mapping(ScoreExact)>>, unmatched_positions |-> <<>>,
         unmatched_interviews |-> <<>>, statistics |-> [match_rate |-> <<1, 1>>]],
        [mappings |-> <<mapping(60)>>,
         unmatched_positions |-> <<[position_code |-> <<"1">>]>>,
         unmatched_interviews |-> <<<<"y">>>>, statistics |-> [match_rate |-> <<1, 2>>]],
        [mappings |-> <<mapping(ScoreExact)>>,
         unmatched_positions |-> <<[position_name |-> <<"z">>], NotADict>>,
         unmatched_interviews |-> <<>>, statistics |-> [match_rate |-> <<1, 3>>]],
        [mappings |-> <<>>, unmatched_positions |-> <<>>]}

ValidatorInputs ==
    LET position_data == <<[position_name |-> <<"x">>, position_code |-> <<"1">>,
                            department |-> <<"d">>]>>
        interview_data == <<[name |-> <<"a">>, position_name |-> <<"x">>,
                             score |-> FloatScore(85)]>>
        match_results == CHOOSE m \in ValidatorMatchResults :
                             "statistics" \in DOMAIN m /\ m.unmatched_interviews # <<>>
    IN {[position_data |-> pd, interview_data |-> interview_data,
         match_results |-> match_results] :
            pd \in SeqsUpTo(PositionRows, MaxValidatorRows)}
       \cup {[position_data |-> position_data, interview_data |-> id,
              match_results |-> match_results] :
                id \in SeqsUpTo(InterviewRows, MaxValidatorRows)}
       \cup {[position_data |-> position_data, interview_data |-> interview_data,
              match_results |-> m] : m \in ValidatorMatchResults}

InitValidator ==
    /\ InitMatchers({Frame({}, <<>>)}, {Frame({}, <<>>)}, {<<>>})
    /\ engine = ProcessingEngine
    /\ engineIn \in ValidatorInputs
    /\ engineOut = <<>>
    /\ LegacyIdle
    /\ ValidatorIdle

\* one validator call: the validator keeps the result and the unmatched
\* records, the session log keeps what the call was given and what it did
ValidatorCall(call, given, did, unmatched) ==
    /\ Len(validatorOuts) < MaxValidatorCalls
    /\ validator' = Validated(validator, did, unmatched)
    /\ validatorOuts' = Append(validatorOuts,
                               [call |-> call, given |-> given, did |-> did])
    /\ UNCHANGED <<engine, engineIn, engineOut>>
    /\ UNCHANGED legacyVars
    /\ UNCHANGED matcherVars

\* DataValidator.validate_position_data_integrity(position_data)
ValidatePositionDataIntegrity ==
    ValidatorCall("positions", engineIn.position_data,
                  validate_position_data_integrity(engineIn.position_data), 0)

\* DataValidator.validate_interview_data_integrity(interview_data)
ValidateInterviewDataIntegrity ==
    ValidatorCall("interviews", engineIn.interview_data,
                  validate_interview_data_integrity(engineIn.interview_data), 0)

\* DataValidator.validate_match_results(match_results)
ValidateMatchResults ==
    ValidatorCall("match_results", engineIn.match_results,
                  validate_match_results(engineIn.match_results),
                  UnmatchedRecords(engineIn.match_results))

\* DataValidator.validate_data_consistency(position_data, interview_data)
ValidateDataConsistency ==
    ValidatorCall("consistency", engineIn.position_data \o engineIn.interview_data,
                  validate_data_consistency(engineIn.position_data,
                                            engineIn.interview_data), 0)

\* DataValidator.clear_validation_results()
ClearValidationResults ==
    /\ Len(validatorOuts) < MaxValidatorCalls
    /\ validator' = clear_validation_results(validator)
    /\ validatorOuts' = Append(validatorOuts, [call |-> "clear"])
    /\ UNCHANGED <<engine, engineIn, engineOut>>
    /\ UNCHANGED legacyVars
    /\ UNCHANGED matcherVars

NextValidator ==
    \/ ValidatePositionDataIntegrity
    \/ ValidateInterviewDataIntegrity
    \/ ValidateMatchResults
    \/ ValidateDataConsistency
    \/ ClearValidationResults

SpecValidator == InitValidator /\ [][NextValidator]_vars

(***************************************************************************)
(* Properties of column-mapping matching, checked under Spec.              *)
(***************************************************************************)

\* a cell as the specification reads it: stringified and trimmed, blank when
\* it is missing or empty after trimming
CellText(v) == IF v = NaN THEN <<>> ELSE Strip(v)

\* the mapping entries whose position value is not blank
ActivePairs(pos_row, m) == {k \in DOMAIN m : CellText(pos_row[m[k].pos_col]) # <<>>}

\* the candidate rows equal to the position on every active condition
SatisfyingRows(pos_row, idf, m) ==
    {i \in DOMAIN idf.rows :
        \A k \in ActivePairs(pos_row, m) :
            CellText(idf.rows[i][m[k].int_col]) = CellText(pos_row[m[k].pos_col])}

ExactConjunctive(r, sat) ==
    /\ Range(r.interview_rows) = sat
    /\ r.matched = (sat # {})
    /\ r.match_score = IF sat # {} THEN ScoreExact ELSE ScoreNone

AllExactConjunctive(outs, idf, m) ==
    \A k \in DOMAIN outs : \A i \in DOMAIN outs[k].match_results :
        ActivePairs(outs[k].match_results[i].position_row, m) # {} =>
            ExactConjunctive(outs[k].match_results[i],
                             SatisfyingRows(outs[k].match_results[i].position_row, idf, m))

\* C1: for every position with at least one non-blank mapped value, match_data
\* and match_data_fast return exactly the candidate rows that equal the
\* position on every active condition, with matched and score 1.0 when that
\* set is non-empty and unmatched, score 0.0 and no candidates when it is empty.
C1_ExactConjunctiveMatch ==
    /\ AllExactConjunctive(cfgOuts, interview_df, column_mappings)
    /\ AllExactConjunctive(fastOuts, interview_df, column_mappings)

\* every mapped value of the position is empty or NaN
AllBlank(pos_row, m) == \A k \in DOMAIN m : pos_row[m[k].pos_col] \in {NaN, <<>>}

NoConditionsResult(r) ==
    /\ ~r.matched
    /\ r.interview_rows = <<>>
    /\ "match_details" \in DOMAIN r
    /\ r.match_details.kind = "no_conditions"

AllBlankUnmatched(outs, m) ==
    \A k \in DOMAIN outs :
        /\ outs[k].status = "ok"
        /\ \A i \in DOMAIN outs[k].match_results :
              AllBlank(outs[k].match_results[i].position_row, m) =>
                  NoConditionsResult(outs[k].match_results[i])

\* C2: when all mapped values of a position are blank (empty or NaN), the
\* call does not raise and the position's result is unmatched, has no
\* candidates and carries the "no conditions" diagnostic in its match details.
C2_AllBlankIsNoConditions ==
    /\ AllBlankUnmatched(cfgOuts, column_mappings)
    /\ AllBlankUnmatched(fastOuts, column_mappings)

SameMatch(direct, indexed, optimized) ==
    /\ Len(direct) = Len(indexed) /\ Len(direct) = Len(optimized)
    /\ \A i \in DOMAIN direct :
          /\ Range(direct[i].interview_rows) = Range(indexed[i].interview_rows)
          /\ Range(direct[i].interview_rows) = Range(optimized[i].matched_indices)
          /\ direct[i].matched = indexed[i].matched
          /\ direct[i].matched = optimized[i].matched

\* C3: the index-based matchers (FastDataMatcher, OptimizedProcessingEngine)
\* and the direct mask matching of ConfigurableDataMatcher give every position
\* the same matched candidate set and the same matched flag.
C3_IndexAgreesWithDirect ==
    (cfgOuts # <<>> /\ fastOuts # <<>> /\ optOuts # <<>>) =>
        SameMatch(cfgOuts[1].match_results, fastOuts[1].match_results,
                  optOuts[1].results)

\* C4: calling match_data, or match_data_fast, again on the same matcher with
\* the same tables and mapping returns the same result list as the first
\* call: same positions in the same order, same matched flag, score and
\* candidate rows.
C4_RepeatedMatchIsIdentical ==
    /\ \A k \in DOMAIN cfgOuts : cfgOuts[k] = cfgOuts[1]
    /\ \A k \in DOMAIN fastOuts : fastOuts[k] = fastOuts[1]

\* both matchers were called twice, on a table in which a position matches
C4_Witness ==
    /\ Len(cfgOuts) >= 2 /\ Len(fastOuts) >= 2
    /\ \E i \in DOMAIN cfgOuts[2].match_results : cfgOuts[2].match_results[i].matched
    /\ \E i \in DOMAIN fastOuts[2].match_results : fastOuts[2].match_results[i].matched

\* the number of candidate rows left after the first k conditions
CountAfter(idf, conds, k) ==
    Cardinality({i \in DOMAIN idf.rows :
                    \A j \in 1..k : StrOf(idf.rows[i][conds[j].int_col]) = conds[j].pos_value})

\* the details hold, for each evaluated condition, an entry with the count
\* left after it (the count before it is the previous entry's)
CountsRecorded(r, idf, conds) ==
    \A k \in DOMAIN conds :
        /\ conds[k].int_col \in DOMAIN r.match_details.exact
        /\ r.match_details.exact[conds[k].int_col].cumulative_matches
               = CountAfter(idf, conds, k)

\* C9: for every position evaluated with at least one active condition, the
\* result's match details record per evaluated condition the candidate count
\* before and after it, also when the final result is unmatched.
C9_DetailsRecordCounts ==
    \A k \in DOMAIN cfgOuts : \A i \in DOMAIN cfgOuts[k].match_results :
        CountsRecorded(cfgOuts[k].match_results[i], interview_df,
                       MatchConditions(cfgOuts[k].match_results[i].position_row,
                                       column_mappings))

(***************************************************************************)
(* Properties of the process_files pipeline, checked under SpecEngine.     *)
(***************************************************************************)

\* the positions the matcher of the run finds no candidate for
ZeroCandidatePositions(out, position_file, interview_file, m) ==
    IF out.matcher = "configurable"
    THEN Len(SelectSeq(MatchDataReturn(<<>>, read_excel_sheet(position_file),
                                       read_excel_sheet(interview_file), m).match_results,
                       LAMBDA r : ~r.matched))
    ELSE Len(SelectSeq(_read_position_file(position_file).data,
                       LAMBDA p : ~_find_best_match(p,
                           ListOf(_extract_interview_positions(
                               _read_interview_file(interview_file).data)),
                           FuzzyThreshold).matched))

ReportedUnmatched(results) ==
    Len(SelectSeq(results, LAMBDA r : /\ r.status = StatusUnmatched
                                      /\ r.candidate_count = 0
                                      /\ r.min_score = None))

ZeroCandidatesReported(out, zero) ==
    zero > 0 => (out.success /\ ReportedUnmatched(out.results) = zero)

\* C5: when a position has no matched candidate (column-mapping mode: no
\* candidate shares its mapped values; legacy mode: no exact, code or fuzzy
\* match), process_files returns success=True and reports the position with
\* status "unmatched", candidate count 0 and no minimum score.
C5_ZeroCandidatesIsOrdinary ==
    \A k \in DOMAIN engineOut :
        (engineOut[k].matcher # "configurable"
            \/ _validate_column_mappings(engineIn.column_mappings) = "ok") =>
        ZeroCandidatesReported(
            engineOut[k],
            ZeroCandidatePositions(engineOut[k], engineIn.position_file,
                                   engineIn.interview_file, engineIn.column_mappings))

(***************************************************************************)
(* Properties of mapping and column validation, checked under SpecSchema.  *)
(***************************************************************************)

NoResults(outs) == \A k \in DOMAIN outs : outs[k].status = "raised"

\* C6: an empty mapping, or one with an entry whose key or value is empty,
\* is rejected before any position is matched: neither matcher produces
\* match results for it.
C6_MalformedMappingRejected ==
    _validate_column_mappings(column_mappings) # "ok" =>
        /\ ~cfg.constructed /\ cfgOuts = <<>>
        /\ NoResults(fastOuts)

\* the mapping entries whose two columns both exist
PresentPairs(m, pdf, idf) ==
    SelectSeq(m, LAMBDA e : e.pos_col \in pdf.columns /\ e.int_col \in idf.columns)

\* a mapped column is absent while some mapped candidate-side column exists
SomeColumnAbsent(m, pdf, idf) ==
    /\ _validate_column_mappings(m) = "ok"
    /\ PresentPairs(m, pdf, idf) # m
    /\ \E k \in DOMAIN m : m[k].int_col \in idf.columns

MatchedOn(outs, pdf, idf, m) ==
    \A k \in DOMAIN outs :
        /\ outs[k].status = "ok"
        /\ Len(outs[k].match_results) = Len(pdf.rows)
        /\ \A i \in DOMAIN outs[k].match_results :
              Range(outs[k].match_results[i].interview_rows)
                  = IF ActivePairs(pdf.rows[i], m) = {} THEN {}
                    ELSE SatisfyingRows(pdf.rows[i], idf, m)

\* C7: when a mapped column is absent from a table while another mapped
\* candidate-side column exists, match_data and match_data_fast do not fail
\* and match every position on the remaining mapped conditions only.
C7_AbsentColumnIsSkipped ==
    SomeColumnAbsent(column_mappings, position_df, interview_df) =>
        /\ MatchedOn(cfgOuts, position_df, interview_df,
                     PresentPairs(column_mappings, position_df, interview_df))
        /\ MatchedOn(fastOuts, position_df, interview_df,
                     PresentPairs(column_mappings, position_df, interview_df))

\* C8: when no candidate-side column of the mapping exists in the candidate
\* table, match_data and match_data_fast fail with an error instead of
\* returning a result list.
C8_NoCandidateColumnFails ==
    (/\ _validate_column_mappings(column_mappings) = "ok"
     /\ \A k \in DOMAIN column_mappings :
           column_mappings[k].int_col \notin interview_df.columns) =>
        /\ NoResults(cfgOuts)
        /\ NoResults(fastOuts)

(***************************************************************************)
(* Properties of batching, checked under SpecBatch.                        *)
(***************************************************************************)

\* C10: for every number of positions, match_data_fast (batches of 50) and
\* _batch_match_optimized (dynamic batch size) return exactly one result per
\* position, in position order, equal to matching each position in one
\* unbatched pass.
C10_BatchingKeepsResults ==
    /\ \A k \in DOMAIN fastOuts :
          /\ fastOuts[k].status = "ok"
          /\ fastOuts[k].match_results =
                 [i \in DOMAIN position_df.rows |->
                     _match_single_position_fast(position_df.rows[i], interview_df,
                                                 fast.interview_indices, column_mappings)]
    /\ \A k \in DOMAIN optOuts :
          /\ optOuts[k].success
          /\ optOuts[k].results =
                 [i \in DOMAIN position_df.rows |->
                     OptMatchOne(position_df.rows[i], interview_df,
                                 opt._interview_index, column_mappings)]

\* both batched loops have run on a table whose size is beyond the dynamic
\* batch-size threshold and a multiple of neither batch size, with a matched
\* position in the last, partial batch
C10_Witness ==
    /\ fastOuts # <<>> /\ optOuts # <<>>
    /\ Len(position_df.rows) > OptMinBatchSize * OptBatchDivisor
    /\ Len(position_df.rows) % FastBatchSize # 0
    /\ Len(position_df.rows) % OptBatchSize(Len(position_df.rows)) # 0
    /\ fastOuts[1].match_results[Len(position_df.rows)].matched
    /\ optOuts[1].results[Len(position_df.rows)].matched
(***************************************************************************)
(* Properties of the candidate index over a session, checked under         *)
(* SpecSession.                                                            *)
(***************************************************************************)

\* C11: after build_indices(C) the index holds, for every mapped column, only
\* what a first build on C gives, whatever build_indices calls were made on
\* the matcher before (so a second build_indices(C) changes nothing).
C11_RebuildHoldsOnlyNewCandidates ==
    \A k \in DOMAIN calls :
        calls[k].op = "build_indices" =>
            calls[k].indices = build_indices(<<>>, calls[k].candidates,
                                             column_mappings, 1)

\* what a call returns when it is answered from its own candidate table alone
FreshAnswer(op, pdf, candidates, m) ==
    IF op = "match_data_fast"
    THEN match_data_fast(<<>>, pdf, candidates, m)
    ELSE process_files_optimized(OptimizedProcessingEngine, pdf, candidates, m)

\* C12: in any sequence of calls on one matcher or engine, every match call
\* is answered from the index and table derived from the candidate table
\* given to that call, never from what an earlier call left behind.
C12_NoStaleIndexAcrossSessions ==
    \A k \in DOMAIN calls :
        calls[k].op \in {"match_data_fast", "process_files_optimized"} =>
            calls[k].out = FreshAnswer(calls[k].op, position_df,
                                       calls[k].candidates, column_mappings)

(***************************************************************************)
(* Properties of the built index, checked under SpecIndex.                 *)
(***************************************************************************)

Ascending(list) == \A i, j \in DOMAIN list : i < j => list[i] < list[j]

\* the index of one column lists, under each trimmed text, exactly the rows
\* that hold it, in ascending order, and has no key for the blank
ColumnIndexExact(ix, idf, col) ==
    /\ <<>> \notin DOMAIN ix
    /\ \A v \in DOMAIN ix :
          /\ Ascending(ix[v])
          /\ Range(ix[v]) = {i \in DOMAIN idf.rows : CellText(idf.rows[i][col]) = v}
    /\ \A i \in DOMAIN idf.rows :
          Cardinality({v \in DOMAIN ix : i \in Range(ix[v])})
              = IF CellText(idf.rows[i][col]) = <<>> THEN 0 ELSE 1

\* C13: after build_indices(C), for every mapped candidate column that C has,
\* the index lists under each value v exactly the row positions whose
\* stringified, trimmed value is v, ascending and without duplicates; rows
\* with a blank or missing value are under no key, every other row is in
\* exactly one list, and C itself is unchanged.
C13_IndexListsExactRows ==
    \A k \in DOMAIN calls :
        calls[k].op = "build_indices" =>
            /\ calls[k].candidates = interview_df
            /\ \A e \in Range(column_mappings) :
                  e.int_col \in calls[k].candidates.columns =>
                      /\ e.int_col \in DOMAIN calls[k].indices
                      /\ ColumnIndexExact(calls[k].indices[e.int_col],
                                          calls[k].candidates, e.int_col)

\* an index was built on a table with a missing or blank value and two rows
\* whose values differ only in padding
C13_Witness ==
    /\ calls # <<>> /\ calls[1].op = "build_indices"
    /\ fast.interview_indices # <<>>
    /\ \E i, j, b \in DOMAIN interview_df.rows :
          /\ interview_df.rows[i].I1 = <<"a">>
          /\ interview_df.rows[j].I1 = <<"a", " ">>
          /\ i < j
          /\ interview_df.rows[b].I1 \in {NaN, <<>>, <<" ">>}

(***************************************************************************)
(* Properties of the legacy matcher, checked under SpecLegacy.             *)
(***************************************************************************)

\* some interview position equals the name directly, ignoring case, or
\* ignoring whitespace
ExactHit(name, ips) ==
    \E i \in DOMAIN ips :
        \/ ips[i] = name
        \/ Lower(ips[i]) = Lower(name)
        \/ NoSpace(ips[i]) = NoSpace(name)

\* the position has a code that occurs in some interview position name
CodeHit(code, ips) == code # <<>> /\ \E i \in DOMAIN ips : IsSubstring(code, ips[i])

TierPriority(r, position, ips) ==
    /\ ExactHit(position.position_name, ips) =>
          (r.match_type = "exact" /\ r.confidence = <<1, 1>> /\ r.matched)
    /\ (~ExactHit(position.position_name, ips) /\ CodeHit(position.position_code, ips)) =>
          (r.match_type = "code" /\ r.confidence = <<95, 100>> /\ r.matched)
    /\ r.match_type = "fuzzy" =>
          (~ExactHit(position.position_name, ips) /\ ~CodeHit(position.position_code, ips))

\* C14: in _find_best_match an exact hit (direct, case-insensitive or
\* whitespace-stripped equality) gives kind "exact" with confidence 1.0;
\* otherwise a non-empty code contained in a candidate name gives kind "code"
\* with confidence 0.95; a fuzzy result is returned only when neither hits,
\* whatever the fuzzy ratio.
C14_TierPriorityIsStrict ==
    \A k \in DOMAIN dmOut :
        TierPriority(dmOut[k], dmIn.position, dmIn.interview_positions)

\* a code hit was returned although another candidate has fuzzy ratio 1.0
C14_Witness ==
    /\ dmOut # <<>>
    /\ dmOut[1].match_type = "code"
    /\ _fuzzy_match(dmIn.position.position_name,
                    dmIn.interview_positions).best_ratio = <<1, 1>>

\* the ratios the fuzzy tier gives the candidate names, in list order
CandidateRatios(name, ips) ==
    [i \in DOMAIN ips |-> FuzzyRatio(_clean_position_name(name), ips[i])]

SameRatio(r, q) == r[1] * q[2] = q[1] * r[2]

LowerRatio(r, q) == r[1] * q[2] < q[1] * r[2]

\* the first position, in list order, among those with the highest ratio
FirstHighest(ratios) ==
    CHOOSE i \in DOMAIN ratios :
        /\ \A j \in DOMAIN ratios : ~LowerRatio(ratios[i], ratios[j])
        /\ \A j \in DOMAIN ratios : j < i => LowerRatio(ratios[j], ratios[i])

IsFuzzyTo(r, ip, ratio) ==
    /\ r.match_type = "fuzzy" /\ r.matched
    /\ r.interview_position = ip
    /\ SameRatio(r.confidence, ratio)

IsNone(r) == r.match_type = "none" /\ ~r.matched /\ r.confidence = <<0, 1>>

\* the fuzzy tier decides: no exact hit, no code hit, some candidate
FuzzyDecides(position, ips) ==
    /\ ips # <<>>
    /\ ~ExactHit(position.position_name, ips)
    /\ ~CodeHit(position.position_code, ips)

\* matched to the first highest candidate iff its ratio reaches the threshold
FuzzyRule(outs, ips, ratios, best, threshold) ==
    \A k \in DOMAIN outs :
        IF ReachesThreshold(ratios[best], threshold)
        THEN IsFuzzyTo(outs[k], ips[best], ratios[best])
        ELSE IsNone(outs[k])

\* the same, a ratio of 0 never being a match
FuzzyRulePositive(outs, ips, ratios, best, threshold) ==
    \A k \in DOMAIN outs :
        IF ReachesThreshold(ratios[best], threshold) /\ ratios[best][1] > 0
        THEN IsFuzzyTo(outs[k], ips[best], ratios[best])
        ELSE IsNone(outs[k])

FuzzyRuleOn(outs, ips, ratios, threshold) ==
    FuzzyRule(outs, ips, ratios, FirstHighest(ratios), threshold)

FuzzyRulePositiveOn(outs, ips, ratios, threshold) ==
    FuzzyRulePositive(outs, ips, ratios, FirstHighest(ratios), threshold)

\* C15 as stated: when neither the exact nor the code tier hits, the result
\* is kind "fuzzy" to the first candidate with the highest ratio (bonus
\* included, capped at 1.0) if and only if that ratio is at least the
\* configured threshold, and otherwise kind "none" with confidence 0.0.
C15_FuzzyIffThreshold ==
    (dmOut # <<>> /\ FuzzyDecides(dmIn.position, dmIn.interview_positions)) =>
        FuzzyRuleOn(dmOut, dmIn.interview_positions,
                    CandidateRatios(dmIn.position.position_name,
                                    dmIn.interview_positions),
                    dm.fuzzy_threshold)

\* C15 amended: as above, with the match made if and only if the highest
\* ratio is at least the threshold and greater than 0.
C15_FuzzyIffThresholdAndPositive ==
    (dmOut # <<>> /\ FuzzyDecides(dmIn.position, dmIn.interview_positions)) =>
        FuzzyRulePositiveOn(dmOut, dmIn.interview_positions,
                            CandidateRatios(dmIn.position.position_name,
                                            dmIn.interview_positions),
                            dm.fuzzy_threshold)

TiedRatios(ratios) == Len(ratios) = 2 /\ SameRatio(ratios[1], ratios[2])

\* a fuzzy match at the default threshold to the first of two candidates that
\* share the highest ratio
C15_Witness ==
    /\ dmOut # <<>> /\ dmOut[1].match_type = "fuzzy"
    /\ dm.fuzzy_threshold = FuzzyThreshold
    /\ dmOut[1].interview_position = dmIn.interview_positions[1]
    /\ TiedRatios(CandidateRatios(dmIn.position.position_name,
                                  dmIn.interview_positions))

(***************************************************************************)
(* Properties of the per-position results, checked under SpecScore and     *)
(* SpecEngine.                                                             *)
(***************************************************************************)
FourStatuses == {StatusUnmatched, StatusNoCandidates, StatusAnomaly, StatusNormal}

\* a score that stands for a number: a number, or a text that reads as one
Parseable(score) ==
    \/ score.type = "float"
    \/ score.type = "str" /\ Strip(score.text) # <<>>
                          /\ Range(Strip(score.text)) \subseteq Digits

\* the status the priority gives a matched position with these candidates
PriorityStatus(candidates) ==
    IF candidates = <<>> THEN StatusNoCandidates
    ELSE IF \A i \in DOMAIN candidates : ~Parseable(candidates[i].score)
    THEN StatusAnomaly
    ELSE StatusNormal

\* the candidates resolved for a mapping: those of its interview position
ResolvedCandidates(mapping, interview_data) ==
    SelectSeq(interview_data, LAMBDA c : c.position_name = mapping.interview_position)

\* C16: every per-position result carries exactly one of the four statuses,
\* chosen by priority: "unmatched" for a position of the unmatched list,
\* otherwise "no candidates" when no candidate is resolved for the mapping,
\* otherwise "data anomaly" when none of the resolved candidates has a
\* parseable score, otherwise "normal"
C16_StatusByPriority ==
    \A k \in DOMAIN engineOut :
        LET ms == engineIn.match_results.mappings
            us == engineIn.match_results.unmatched_positions
            rs == engineOut[k].results
        IN /\ Len(rs) = Len(ms) + Len(us)
           /\ \A i \in DOMAIN rs :
                 /\ rs[i].status \in FourStatuses
                 /\ rs[i].status =
                        IF i > Len(ms) THEN StatusUnmatched
                        ELSE PriorityStatus(ResolvedCandidates(ms[i], engineIn.interview_data))

\* a call that reports a data anomaly for the mapped position and
\* "unmatched" for the other one: the candidates of the mapping are one
\* without a score and one with a text that is no number
C16_Witness ==
    \E k \in DOMAIN engineOut :
        /\ Len(engineOut[k].results) = 2
        /\ engineOut[k].results[1].status = StatusAnomaly
        /\ engineOut[k].results[1].candidate_count = 2
        /\ engineOut[k].results[2].status = StatusUnmatched

\* the match results of the column-mapping matcher whose candidates exist
\* and all carry a score that is no number
AllUnparseable(position_file, interview_file, m) ==
    SelectSeq(MatchDataReturn(<<>>, read_excel_sheet(position_file),
                              read_excel_sheet(interview_file), m).match_results,
              LAMBDA r : /\ r.matched
                         /\ \A j \in DOMAIN r.interview_rows :
                               ~PyInt(Get(interview_file.rows[r.interview_rows[j]],
                                          ColScore, NaN)).ok)

\* the results reported for a position row
ResultsOf(out, position_row) ==
    SelectSeq(out.results,
              LAMBDA q : /\ q.position_code = Strip(StrOf(position_row[ColPositionCode]))
                         /\ q.position_name = Strip(StrOf(position_row[ColPositionName])))

\* every position row of the sheet states its number of openings
RecruitCountsGiven(position_file) ==
    \A i \in DOMAIN position_file.rows : RecruitCount(position_file.rows[i]).ok

\* C17: in a successful run with a column mapping on a position sheet whose
\* rows all state their number of openings, a position whose matching
\* candidates all have unparseable scores is matched and is reported with
\* the status "data anomaly" and an empty score list
C17_UnparseableIsAnomaly ==
    \A k \in DOMAIN engineOut :
        (/\ engineOut[k].success
         /\ engineOut[k].matcher = "configurable"
         /\ RecruitCountsGiven(engineIn.position_file)) =>
        LET rs == AllUnparseable(engineIn.position_file, engineIn.interview_file,
                                 engineIn.column_mappings)
        IN \A i \in DOMAIN rs :
              LET reported == ResultsOf(engineOut[k], rs[i].position_row)
              IN /\ reported # <<>>
                 /\ \A j \in DOMAIN reported :
                       /\ reported[j].status = StatusAnomaly
                       /\ reported[j].all_scores = <<>>

\* the valid scores of the candidates the column-mapping matcher found for
\* a match result
MatchedScores(r, interview_file) ==
    LET cells == [j \in DOMAIN r.interview_rows |->
                     Get(interview_file.rows[r.interview_rows[j]], ColScore, NaN)]
        valid == SelectSeq(cells, LAMBDA c : PyInt(c).ok)
    IN [j \in DOMAIN valid |-> PyInt(valid[j]).value]

\* min(scores) of a non-empty list
MinOf(scores) ==
    scores[CHOOSE i \in DOMAIN scores : \A j \in DOMAIN scores : scores[i] <= scores[j]]

\* C18: in a successful run with a column mapping on a position sheet whose
\* rows all state their number of openings, a position reported with the
\* status "normal" has min_score equal to the lowest valid score of the
\* candidates matched to it and candidate_count equal to their number
C18_NormalHasMinScore ==
    \A k \in DOMAIN engineOut :
        (/\ engineOut[k].success
         /\ engineOut[k].matcher = "configurable"
         /\ RecruitCountsGiven(engineIn.position_file)) =>
        LET rs == MatchDataReturn(<<>>, read_excel_sheet(engineIn.position_file),
                                  read_excel_sheet(engineIn.interview_file),
                                  engineIn.column_mappings).match_results
        IN \A i \in DOMAIN rs :
              LET reported == ResultsOf(engineOut[k], rs[i].position_row)
                  scores == MatchedScores(rs[i], engineIn.interview_file)
              IN \A j \in DOMAIN reported :
                    (reported[j].status = StatusNormal /\ scores # <<>>) =>
                    /\ reported[j].min_score = <<MinOf(scores)>>
                    /\ reported[j].candidate_count = Len(scores)

(***************************************************************************)
(* Properties of the statistics and of the export, checked under SpecStats.*)
(***************************************************************************)

\* the number of results that pass the test
CountOf(results, Test(_)) == Cardinality({i \in DOMAIN results : Test(results[i])})

\* the candidates of the matched results, counted one result after another
RECURSIVE CandidatesOf(_)
CandidatesOf(results) ==
    IF results = <<>> THEN 0
    ELSE (IF Head(results).matched THEN Len(Head(results).interview_rows) ELSE 0)
         + CandidatesOf(Tail(results))

\* the sum of the match scores of the matched results
RECURSIVE ScoresOf(_)
ScoresOf(results) ==
    IF results = <<>> THEN 0
    ELSE (IF Head(results).matched THEN Head(results).match_score ELSE 0)
         + ScoresOf(Tail(results))

\* a fraction <<a, b>> of the statistics stands for the quotient x / y
IsQuotient(fraction, x, y) == fraction[2] > 0 /\ fraction[1] * y = x * fraction[2]

\* a fraction of the statistics that stands for 0
IsZero(fraction) == fraction[2] > 0 /\ fraction[1] = 0

\* the counts every one of the three statistics carries
CountsAgree(st, total, matched) ==
    /\ st.total_positions = total
    /\ st.matched_positions = matched
    /\ st.matched_positions + st.unmatched_positions = st.total_positions
    /\ IF total = 0 THEN IsZero(st.match_rate)
       ELSE IsQuotient(st.match_rate, matched, total)

\* the statistics of the column-mapping matcher on its results
ConfigurableStatisticsAgree(st, results) ==
    LET matched == CountOf(results, LAMBDA r : r.matched)
    IN /\ CountsAgree(st, Len(results), matched)
       /\ st.total_candidates = CandidatesOf(results)
       /\ st.high_confidence_matches =
              CountOf(results, LAMBDA r : r.matched /\ r.match_score >= HighConfidence)
       /\ st.low_confidence_matches =
              CountOf(results, LAMBDA r : r.matched /\ r.match_score < MediumConfidence)
       /\ st.high_confidence_matches + st.medium_confidence_matches
              + st.low_confidence_matches = st.matched_positions
       /\ IF matched = 0 THEN IsZero(st.average_match_score)
          ELSE IsQuotient(st.average_match_score, ScoresOf(results), matched)

RECURSIVE RowCandidates(_)
RowCandidates(rows) ==
    IF rows = <<>> THEN 0 ELSE Head(rows).mianshi_renshu + RowCandidates(Tail(rows))

DerivedCounts(rows) ==
    [total_positions |-> Len(rows),
     matched_positions |->
         Cardinality({i \in DOMAIN rows : rows[i].pipei_zhuangtai = ExportMatched}),
     unmatched_positions |->
         Cardinality({i \in DOMAIN rows : rows[i].pipei_zhuangtai = ExportUnmatched}),
     total_candidates |-> RowCandidates(rows)]

\* the same four counts of a statistics dict
StatisticsCounts(st) ==
    [total_positions |-> st.total_positions,
     matched_positions |-> st.matched_positions,
     unmatched_positions |-> st.unmatched_positions,
     total_candidates |-> st.total_candidates]

\* C20: the total, matched, unmatched and candidate counts re-derived from
\* the rows of get_matched_data_for_export are those of the statistics
\* computed from the same match results
C20_ExportRoundTrip ==
    \A k \in DOMAIN cfgOuts :
        cfgOuts[k].op = "get_matched_data_for_export" =>
        /\ DerivedCounts(cfgOuts[k].rows)
              = StatisticsCounts(_generate_match_statistics(cfg.match_results))
        /\ \A j \in DOMAIN cfgOuts :
              cfgOuts[j].op = "_generate_match_statistics" =>
              DerivedCounts(cfgOuts[k].rows) = StatisticsCounts(cfgOuts[j].statistics)

\* an export and the statistics of the same three results, one of them
\* unmatched and two matched with three candidates between them
C20_Witness ==
    \E k, j \in DOMAIN cfgOuts :
        /\ cfgOuts[k].op = "get_matched_data_for_export"
        /\ cfgOuts[j].op = "_generate_match_statistics"
        /\ DerivedCounts(cfgOuts[k].rows) =
              [total_positions |-> 3, matched_positions |-> 2,
               unmatched_positions |-> 1, total_candidates |-> 3]

(***************************************************************************)
(* Properties of process_files, checked under SpecEngine.                  *)
(***************************************************************************)

\* some position of the sheet has the name of a candidate's position
SharesAName(position_file, interview_file) ==
    \E i \in DOMAIN _read_position_file(position_file).data,
       j \in DOMAIN _read_interview_file(interview_file).data :
        _read_position_file(position_file).data[i].position_name
            = _read_interview_file(interview_file).data[j].position_name

\* C21: a run without a column mapping on valid inputs in which a position
\* name equals a candidate's position name succeeds with a non-empty result
\* list, and the progress callback is called exactly 7 times, with the step
\* numbers 1 to 7 in order and total_steps = 7
C21_LegacyRunCompletes ==
    \A k \in DOMAIN engineOut :
        (/\ engineOut[k].matcher = "legacy"
         /\ SharesAName(engineIn.position_file, engineIn.interview_file)) =>
        /\ engineOut[k].success
        /\ engineOut[k].results # <<>>
        /\ Len(engineOut[k].progress) = 7
        /\ \A i \in DOMAIN engineOut[k].progress :
              /\ engineOut[k].progress[i].step_number = i
              /\ engineOut[k].progress[i].total_steps = 7

\* the position rows of the sheet with this name and code
RowsNamed(position_file, position_name, position_code) ==
    {i \in DOMAIN position_file.rows :
        /\ Strip(StrOf(position_file.rows[i][ColPositionName])) = position_name
        /\ Strip(StrOf(position_file.rows[i][ColPositionCode])) = position_code}

\* C22: every per-position result of a successful run, in either mode and
\* for matched and unmatched positions alike, carries a non-empty name and
\* the name and code of a position of the sheet
C22_ResultsCarryNameAndCode ==
    \A k \in DOMAIN engineOut :
        engineOut[k].success =>
        \A i \in DOMAIN engineOut[k].results :
            /\ engineOut[k].results[i].position_name # <<>>
            /\ RowsNamed(engineIn.position_file, engineOut[k].results[i].position_name,
                         engineOut[k].results[i].position_code) # {}

(***************************************************************************)
(* Properties of the validators, checked under SpecValidator.              *)
(***************************************************************************)

\* the row is a record whose field, trimmed, is a non-empty text
HasText(row, key) ==
    IsDict(row) /\ StripField(row, key).ok /\ StripField(row, key).value # <<>>

\* C23: validate_position_data_integrity is valid exactly when no row gave
\* an error and a row is valid; the invalid rows, one error each, are the
\* rows that are no record or have no name, every other row is valid
\* whatever its code and department (missing or seen before), and
\* valid_count + invalid_count is the number of rows
C23_PositionIntegrity ==
    \A i \in DOMAIN validatorOuts :
        (validatorOuts[i].call = "positions" /\ validatorOuts[i].given # <<>>) =>
        LET given == validatorOuts[i].given
            r == validatorOuts[i].did.result
            named == SelectSeq(given, LAMBDA row : HasText(row, "position_name"))
        IN /\ ~validatorOuts[i].did.raised
           /\ r.is_valid <=> (r.errors = <<>> /\ r.valid_count > 0)
           /\ r.valid_count + r.invalid_count = Len(given)
           /\ r.valid_count = Len(named)
           /\ Len(r.errors) = Len(given) - Len(named)

\* the score is a number, or a text that parses as one, and is >= 0
ScoreIsNonNegative(row) ==
    /\ "score" \in DOMAIN row
    /\ row.score.type \in {"float", "str"}
    /\ PyFloat(row.score).ok
    /\ PyFloat(row.score).value >= 0

\* C24: validate_interview_data_integrity counts as valid exactly the rows
\* with a name, a position name and a score that is a number >= 0; every
\* other row gives one error and is invalid, so that valid_count +
\* invalid_count is the number of rows, and a repeated (name, position) pair
\* is a warning only
C24_InterviewIntegrity ==
    \A i \in DOMAIN validatorOuts :
        (validatorOuts[i].call = "interviews" /\ validatorOuts[i].given # <<>>) =>
        LET given == validatorOuts[i].given
            r == validatorOuts[i].did.result
            good == SelectSeq(given, LAMBDA row : /\ HasText(row, "name")
                                                  /\ HasText(row, "position_name")
                                                  /\ ScoreIsNonNegative(row))
        IN /\ ~validatorOuts[i].did.raised
           /\ r.valid_count = Len(good)
           /\ r.invalid_count = Len(given) - Len(good)
           /\ Len(r.errors) = r.invalid_count
           /\ \A j \in DOMAIN r.warnings : r.warnings[j] = "duplicate_candidate"

\* the validator calls made since the last clear_validation_results
SinceLastClear ==
    LET clears == {i \in DOMAIN validatorOuts : validatorOuts[i].call = "clear"}
        last == IF clears = {} THEN 0
                ELSE CHOOSE i \in clears : \A j \in clears : j <= i
    IN SubSeq(validatorOuts, last + 1, Len(validatorOuts))

\* the results those calls returned, in call order
ReturnedResults ==
    LET returning == SelectSeq(SinceLastClear, LAMBDA o : ~o.did.raised)
    IN [i \in DOMAIN returning |-> returning[i].did.result]

\* C25: the session list holds the result of every call since the last
\* clear that returned one, so that the summary counts those calls, splits
\* them into passed and failed, and sums their errors and warnings
C25_ResultsAccumulate ==
    LET summary == get_validation_summary(validator)
    IN /\ validator._validation_results = ReturnedResults
       /\ summary.total_validations = Len(ReturnedResults)
       /\ summary.passed_validations + summary.failed_validations
              = Len(ReturnedResults)
       /\ summary.total_errors
              = SumSeq([i \in DOMAIN ReturnedResults |-> Len(ReturnedResults[i].errors)])
       /\ summary.total_warnings
              = SumSeq([i \in DOMAIN ReturnedResults |-> Len(ReturnedResults[i].warnings)])

\* every row is a record, and its name (where one is required) is a text
RecordsNamed(data, key) == \A i \in DOMAIN data : HasText(data[i], key)

Records(data) == \A i \in DOMAIN data : IsDict(data[i])

\* C26: on records whose optional fields (code, department, and for the
\* consistency check the position name) are absent, None or empty, no
\* validator raises and none records an error for the field: position rows
\* with a name are all valid, and the consistency check returns its result
C26_OptionalFieldsNeverFatal ==
    \A i \in DOMAIN validatorOuts :
        LET o == validatorOuts[i]
        IN /\ (o.call = "positions" /\ o.given # <<>>
               /\ RecordsNamed(o.given, "position_name")) =>
              (/\ ~o.did.raised
               /\ o.did.result.errors = <<>>
               /\ o.did.result.valid_count = Len(o.given))
           /\ (o.call = "consistency" /\ Records(o.given)) => ~o.did.raised
           /\ (o.call = "match_results"
               /\ \A k \in DOMAIN RequiredKeys : RequiredKeys[k] \in DOMAIN o.given
               /\ Records(o.given.unmatched_positions)) => ~o.did.raised

(***************************************************************************)
(* Properties of the engine's state, checked under SpecReset.              *)
(***************************************************************************)

\* C27: whatever runs came before, reset_processing_state leaves the engine
\* with current_step = 0, no start time and is_processing false, no errors
\* and no warnings, and the validator's session list empty
C27_ResetClearsState ==
    [][ResetProcessingState =>
          /\ get_processing_status(engine').current_step = 0
          /\ get_processing_status(engine').start_time = None
          /\ ~get_processing_status(engine').is_processing
          /\ get_processing_status(engine').errors = <<>>
          /\ get_processing_status(engine').warnings = <<>>
          /\ validator'._validation_results = <<>>
          /\ get_validation_summary(validator').total_validations = 0]_vars

\* a run that left warnings and validation results behind was made, and the
\* state was reset after it
C27_Witness ==
    /\ \E k \in DOMAIN engineOut : engineOut[k].success
    /\ \E k \in DOMAIN engineOut : ~engineOut[k].success
    /\ get_processing_status(engine).current_step = 0
    /\ validator._validation_results = <<>>

(***************************************************************************)
(* Properties of repeated match passes, checked under SpecPasses.          *)
(***************************************************************************)

\* C28: what a match pass returned is not changed by a later pass of the
\* same matcher: the 'match_results' list a match_data call returned, and
\* the 'mappings' and 'unmatched_positions' lists a match_positions call
\* returned, still hold what they held when the call returned
C28_ReturnedResultsAreKept ==
    /\ \A k \in DOMAIN cfgOuts :
          cfgOuts[k].status = "ok" =>
          ReturnedMatchResults(cfg, cfgOuts[k]) = cfgOuts[k].match_results
    /\ \A k \in DOMAIN dmOut :
          dmOut[k].ok =>
          /\ ReturnedMappings(dm, dmOut[k]) = dmOut[k].mappings
          /\ ReturnedUnmatchedPositions(dm, dmOut[k]) = dmOut[k].unmatched_positions

(***************************************************************************)
(* Properties of process_files with a mapping, checked under SpecMapped    *)
(* and SpecEngine.                                                         *)
(***************************************************************************)

\* the matched results of the configurable matcher on the two sheets
MatchedByConfigurable ==
    SelectSeq(MatchDataReturn(<<>>, read_excel_sheet(engineIn.position_file),
                              read_excel_sheet(engineIn.interview_file),
                              engineIn.column_mappings).match_results,
              LAMBDA r : r.matched)

\* the scores of these rows of the interview sheet, in row order
RowScores(interview_rows) ==
    [i \in DOMAIN interview_rows |->
        PyInt(engineIn.interview_file.rows[interview_rows[i]][ColScore]).value]

\* C29: in a successful run with a mapping, the result of each matched
\* position counts exactly the candidate rows of its match set and lists
\* exactly their scores
C29_CountsAreOfTheMatchSet ==
    \A k \in DOMAIN engineOut :
        (engineOut[k].success /\ engineOut[k].matcher = "configurable") =>
        \A j \in DOMAIN MatchedByConfigurable :
            /\ j \in DOMAIN engineOut[k].results
            /\ engineOut[k].results[j].candidate_count
                   = Len(MatchedByConfigurable[j].interview_rows)
            /\ engineOut[k].results[j].all_scores
                   = SortedDesc(RowScores(MatchedByConfigurable[j].interview_rows))

\* the number of positions the run handed to its matcher: the rows of the
\* position sheet with a mapping, the position dicts without one
PositionsMatched(matcher) ==
    IF matcher = "configurable" THEN Len(read_excel_sheet(engineIn.position_file).rows)
    ELSE Len(_read_position_file(engineIn.position_file).data)

====
